---- MODULE Spec2Model ----
(***************************************************************************)
(* Model of the ad image composition pipeline (app/pipeline/*.py,          *)
(* app/services/*.py, modules/instagram/pipeline.py).                      *)
(*                                                                         *)
(* A Python str is a sequence of characters, each character written as a   *)
(* one-character string.  A Hangul syllable is one character and is        *)
(* written "ko:<romanisation>" ("ko:o" is U+C624).  Python values that     *)
(* come from untyped JSON are records tagged with their Python type.       *)
(* A call that can raise yields Returned(value) or Raised(exc, at).        *)
(***************************************************************************)
EXTENDS Integers, Sequences, FiniteSets, TLC

VARIABLES
    pc,           \* position of the request driving PlanBuilder
    req,          \* keyword arguments of the build_plan call
    plan_result,  \* what build_plan returned or raised
    bg_cfg,       \* BackgroundConfig handed to generate_background
    bg_result,    \* what generate_background returned or raised
    call,         \* last stage invocation: stage, selection, outcome
    run,          \* per session: the generate_instagram_feed_ad call in progress
    world,        \* IMAGE_PROVIDER, font files, saved images, history files
    session_state \* st.session_state of one browser session

vars == <<pc, req, plan_result, bg_cfg, bg_result, call, run, world, session_state>>

-----------------------------------------------------------------------------
(* Python values *)

None == [t |-> "NoneType"]
Str(s) == [t |-> "str", s |-> s]
PyInt(n) == [t |-> "int", n |-> n]
PyBool(b) == [t |-> "bool", b |-> b]
PyFloatLit(h) == [t |-> "float", h |-> h]   \* h: the value in hundredths
Dict(d) == [t |-> "dict", d |-> d]
EmptyDict == [t |-> "dict", d |-> [k \in {} |-> None]]

Returned(v) == [ok |-> TRUE, value |-> v]
Raised(exc, at) == [ok |-> FALSE, exc |-> exc, at |-> at]

\* bool(v)
Truthy(v) ==
    CASE v.t = "NoneType" -> FALSE
      [] v.t = "str" -> v.s # <<>>
      [] v.t = "int" -> v.n # 0
      [] v.t = "bool" -> v.b
      [] v.t = "float" -> v.h # 0
      [] v.t = "dict" -> DOMAIN v.d # {}
      [] OTHER -> TRUE

\* a or b
Or(a, b) == IF Truthy(a) THEN a ELSE b

\* d.get(key)
Get(d, key) == IF key \in DOMAIN d.d THEN d.d[key] ELSE None

IsSpace(c) == c \in {" ", "\t", "\n", "\r", "\f"}
IsDigit(c) == c \in {"0", "1", "2", "3", "4", "5", "6", "7", "8", "9"}

UpperToLower ==
    [A |-> "a", B |-> "b", C |-> "c", D |-> "d", E |-> "e", F |-> "f",
     G |-> "g", H |-> "h", I |-> "i", J |-> "j", K |-> "k", L |-> "l",
     M |-> "m", N |-> "n", O |-> "o", P |-> "p", Q |-> "q", R |-> "r",
     S |-> "s", T |-> "t", U |-> "u", V |-> "v", W |-> "w", X |-> "x",
     Y |-> "y", Z |-> "z"]

\* s.lower()
Lower(s) ==
    [i \in 1..Len(s) |->
        IF s[i] \in DOMAIN UpperToLower THEN UpperToLower[s[i]] ELSE s[i]]

\* sub in s
Contains(s, sub) ==
    \E i \in 1..(Len(s) - Len(sub) + 1) : SubSeq(s, i, i + Len(sub) - 1) = sub

\* s.strip()
Strip(s) ==
    LET keep == {i \in 1..Len(s) : ~IsSpace(s[i])}
    IN  IF keep = {} THEN <<>>
        ELSE SubSeq(s, CHOOSE i \in keep : \A j \in keep : i <= j,
                       CHOOSE i \in keep : \A j \in keep : i >= j)

\* ", ".join(parts)
RECURSIVE Join(_)
Join(parts) ==
    IF parts = <<>> THEN <<>>
    ELSE IF Len(parts) = 1 THEN parts[1]
    ELSE parts[1] \o <<","," ">> \o Join(Tail(parts))

\* str(n) for an int
RECURSIVE DecimalDigits(_)
DecimalDigits(n) ==
    LET d == <<"0", "1", "2", "3", "4", "5", "6", "7", "8", "9">>[(n % 10) + 1]
    IN  IF n < 10 THEN <<d>> ELSE DecimalDigits(n \div 10) \o <<d>>

\* str(v), for the value types an override carries here
PyStr(v) ==
    CASE v.t = "str" -> v.s
      [] v.t = "int" -> IF v.n < 0 THEN <<"-">> \o DecimalDigits(-v.n)
                        ELSE DecimalDigits(v.n)
      [] v.t = "bool" -> IF v.b THEN <<"T","r","u","e">> ELSE <<"F","a","l","s","e">>
      [] v.t = "NoneType" -> <<"N","o","n","e">>

\* float(s) for a str: digits, optionally a point and one or two digits,
\* surrounded by whitespace, is a number (kept in hundredths); a word of
\* letters is not.  Other spellings Python accepts (exponents, inf, nan,
\* underscores, signs) are outside the inputs drawn here.
ParseFloat(s) ==
    LET b == Strip(s)
        dots == {i \in 1..Len(b) : b[i] = "."}
        AllDigits(x) == x # <<>> /\ \A i \in 1..Len(x) : IsDigit(x[i])
        RECURSIVE Num(_)
        Num(x) == IF x = <<>> THEN 0
                  ELSE 10 * Num(SubSeq(x, 1, Len(x) - 1))
                       + (CHOOSE k \in 0..9 : DecimalDigits(k) = <<x[Len(x)]>>)
    IN  IF AllDigits(b) THEN Returned(100 * Num(b))
        ELSE IF Cardinality(dots) = 1
        THEN LET p == CHOOSE i \in dots : TRUE
                 whole == SubSeq(b, 1, p - 1)
                 frac == SubSeq(b, p + 1, Len(b))
             IN  IF AllDigits(whole) /\ AllDigits(frac) /\ Len(frac) <= 2
                 THEN Returned(100 * Num(whole)
                               + (IF Len(frac) = 1 THEN 10 * Num(frac) ELSE Num(frac)))
                 ELSE Raised("ValueError", "float")
        ELSE Raised("ValueError", "float")

\* float(v); the value is kept in hundredths
PyFloat(v) ==
    CASE v.t = "float" -> Returned(v.h)
      [] v.t = "int" -> Returned(100 * v.n)
      [] v.t = "bool" -> Returned(IF v.b THEN 100 ELSE 0)
      [] v.t = "str" -> ParseFloat(v.s)
      [] OTHER -> Raised("TypeError", "float")


-----------------------------------------------------------------------------
(* app/pipeline/plan.py *)

CopySpec(headline, subcopy, cta) ==
    [headline |-> headline, subcopy |-> subcopy, cta |-> cta]

EmphasisSpec(text, color_hex, scale) ==
    [t |-> "EmphasisSpec", text |-> text, color_hex |-> color_hex, scale |-> scale]

TextBlockLayout(position, font_style, font_size, color_hex, emphasis) ==
    [position |-> position, font_style |-> font_style, font_size |-> font_size,
     color_hex |-> color_hex, emphasis |-> emphasis]

LayoutSpec(headline, subcopy, cta) ==
    [headline |-> headline, subcopy |-> subcopy, cta |-> cta]

ModelHints(lora_key, control_hint, ip_adapter_ref) ==
    [lora_key |-> lora_key, control_hint |-> control_hint,
     ip_adapter_ref |-> ip_adapter_ref]

Plan(copy, background_prompt, layout, model_hints) ==
    [copy |-> copy, background_prompt |-> background_prompt,
     layout |-> layout, model_hints |-> model_hints]

\* the Literal types of TextBlockLayout's fields
Positions ==
    {<<"u","p","p","e","r","_","c","e","n","t","e","r">>, <<"u","p","p","e","r","_","l","e","f","t">>, <<"u","p","p","e","r","_","r","i","g","h","t">>, <<"c","e","n","t","e","r">>,
     <<"l","o","w","e","r","_","c","e","n","t","e","r">>, <<"l","o","w","e","r","_","l","e","f","t">>, <<"l","o","w","e","r","_","r","i","g","h","t">>}
FontStyles == {<<"r","e","g","u","l","a","r">>, <<"b","o","l","d">>}
FontSizes == {<<"s","m">>, <<"m","d">>, <<"l","g">>, <<"x","l">>}

ToneLuxury == <<"ko:go","ko:geu-p">>
ToneEmotional == <<"ko:ga-m","ko:seo-ng">>
ToneCasual == <<"ko:kae","ko:ju","ko:eo-l">>

_build_copy_rule(product, tone, discount) ==
    LET headline == IF Truthy(discount) THEN <<"ko:o","ko:neu-l","ko:ma-n"," ">> \o discount.s
                    ELSE product \o <<" ","ko:ji","ko:geu-m"," ","ko:ma-n","ko:na","ko:bo","ko:se","ko:yo">>
    IN  IF tone = ToneLuxury
        THEN CopySpec(headline, product \o <<"ko:ui"," ","ko:gi-ph","ko:eu-n"," ","ko:mae","ko:ryeo-k","ko:eu-l"," ","ko:peu","ko:ri","ko:mi","ko:eo-m"," ","ko:mu","ko:deu","ko:ro",".">>,
                      <<"ko:ji","ko:geu-m"," ","ko:ye","ko:ya-k","ko:ha","ko:gi">>)
        ELSE IF tone = ToneEmotional
        THEN CopySpec(headline, <<"ko:tta","ko:tteu-s","ko:ha-n"," ","ko:su-n","ko:ga-n",","," ">> \o product \o <<"ko:wa"," ","ko:ha-m","ko:kke",".">>,
                      <<"ko:ji","ko:geu-m"," ","ko:hwa-k","ko:i-n","ko:ha","ko:gi">>)
        ELSE CopySpec(headline,
                      <<"ko:ga","ko:byeo-p","ko:ge"," ","ko:jeu-l","ko:gi","ko:neu-n"," ">> \o product \o <<","," ","ko:o","ko:neu-l","ko:do"," ","ko:bu","ko:da-m"," ","ko:eo-ps","ko:i","!">>,
                      <<"ko:ba","ko:ro"," ","ko:bo","ko:gi">>)

PlanBlacklist ==
    <<<<"t","e","x","t">>, <<"l","o","g","o">>, <<"w","a","t","e","r","m","a","r","k">>, <<"ko:mu-n","ko:gu">>, <<"ko:geu-l","ko:ja">>, <<"ko:te-k","ko:seu","ko:teu">>, <<"ko:ro","ko:go">>>>

\* mutant: the hint is compared as typed, not lower-cased
_strip_text_like_tokens_as_typed(s) ==
    IF \E i \in 1..Len(PlanBlacklist) : Contains(s, PlanBlacklist[i])
    THEN <<>>
    ELSE Strip(s)

_strip_text_like_tokens(s) ==
    IF \E i \in 1..Len(PlanBlacklist) : Contains(Lower(s), Lower(PlanBlacklist[i]))
    THEN <<>>
    ELSE Strip(s)

_build_background_prompt_rule(product, tone, extra) ==
    LET head == <<<<"h","i","g","h"," ","q","u","a","l","i","t","y"," ","b","a","c","k","g","r","o","u","n","d"," ","f","o","r"," ","a","d","v","e","r","t","i","s","e","m","e","n","t">>,
                  <<"i","n","s","t","a","g","r","a","m","-","f","r","i","e","n","d","l","y"," ","c","o","m","p","o","s","i","t","i","o","n">>,
                  <<"s","o","f","t"," ","d","e","p","t","h"," ","o","f"," ","f","i","e","l","d">>,
                  <<"c","l","e","a","n"," ","s","c","e","n","e">>,
                  <<"n","o"," ","t","e","x","t">>,
                  <<"n","o"," ","l","o","g","o">>,
                  <<"n","o"," ","w","a","t","e","r","m","a","r","k">>>>
        mood == IF tone = ToneLuxury
                THEN <<<<"l","u","x","u","r","y"," ","c","a","f","e"," ","m","o","o","d">>, <<"p","r","e","m","i","u","m"," ","i","n","t","e","r","i","o","r">>,
                       <<"w","a","r","m"," ","b","u","t"," ","e","l","e","g","a","n","t"," ","l","i","g","h","t","i","n","g">>, <<"w","o","o","d"," ","t","e","x","t","u","r","e">>>>
                ELSE IF tone = ToneEmotional
                THEN <<<<"w","a","r","m"," ","c","o","z","y"," ","c","a","f","e"," ","m","o","o","d">>, <<"s","o","f","t"," ","w","a","r","m"," ","l","i","g","h","t","i","n","g">>,
                       <<"w","o","o","d","e","n"," ","t","a","b","l","e">>, <<"g","e","n","t","l","e"," ","b","o","k","e","h">>>>
                ELSE <<<<"b","r","i","g","h","t"," ","f","r","i","e","n","d","l","y"," ","c","a","f","e"," ","m","o","o","d">>, <<"n","a","t","u","r","a","l"," ","l","i","g","h","t","i","n","g">>,
                       <<"w","o","o","d","e","n"," ","t","a","b","l","e">>, <<"s","i","m","p","l","e"," ","c","l","e","a","n">>>>
        base == head \o mood \o <<<<"f","i","t","s"," ","w","e","l","l"," ","w","i","t","h"," ">> \o product>>
        safe_extra == IF Truthy(extra) THEN _strip_text_like_tokens(extra.s) ELSE <<>>
    IN  Join(IF safe_extra # <<>> THEN Append(base, safe_extra) ELSE base)

\* mutant: \d instead of \d+
DigitRunOfOne(text, i) == IF i <= Len(text) /\ IsDigit(text[i]) THEN 1 ELSE 0

\* number of digits of text from position i on
RECURSIVE DigitRun(_, _)
DigitRun(text, i) ==
    IF i <= Len(text) /\ IsDigit(text[i]) THEN 1 + DigitRun(text, i + 1) ELSE 0

\* last position of a match of \d+\s?<unit> that starts at i, or 0: the
\* digits greedy, the whitespace greedy, both backtracking
AltMatchEnd(text, i, unit) ==
    LET n == DigitRun(text, i)
        Fits(k, w) ==
            /\ w = 1 => (i + k <= Len(text) /\ IsSpace(text[i + k]))
            /\ i + k + w + Len(unit) - 1 <= Len(text)
            /\ SubSeq(text, i + k + w, i + k + w + Len(unit) - 1) = unit
        cands == {c \in (1..n) \X {0, 1} : Fits(c[1], c[2])}
    IN  IF cands = {} THEN 0
        ELSE LET best == CHOOSE c \in cands : \A d \in cands :
                             c[1] > d[1] \/ (c[1] = d[1] /\ c[2] >= d[2])
             IN  i + best[1] + best[2] + Len(unit) - 1

\* last position of a match of (\d+\s?%|\d+\s?퍼센트) that starts at i, or 0
MatchEndAt(text, i) ==
    LET first == AltMatchEnd(text, i, <<"%">>)
    IN  IF first # 0 THEN first ELSE AltMatchEnd(text, i, <<"ko:peo","ko:se-n","ko:teu">>)

_extract_percent_or_number_phrase(text) ==
    LET starts == {i \in 1..Len(text) : MatchEndAt(text, i) # 0}
    IN  IF starts = {} THEN None
        ELSE LET i == CHOOSE a \in starts : \A b \in starts : a <= b
                 group == SubSeq(text, i, MatchEndAt(text, i))
             IN  Str(SelectSeq(group, LAMBDA c : c # " "))

_build_layout_rule(tone, discount, headline) ==
    LET target == IF Truthy(discount)
                  THEN _extract_percent_or_number_phrase(headline) ELSE None
        emphasis == IF Truthy(target)
                    THEN EmphasisSpec(target.s, <<"#","F","F","4","D","4","D">>, 120) ELSE None
    IN  LayoutSpec(
            TextBlockLayout(<<"u","p","p","e","r","_","c","e","n","t","e","r">>, <<"b","o","l","d">>,
                            IF tone # ToneLuxury THEN <<"x","l">> ELSE <<"l","g">>,
                            <<"#","F","F","F","F","F","F">>, emphasis),
            TextBlockLayout(<<"l","o","w","e","r","_","c","e","n","t","e","r">>, <<"r","e","g","u","l","a","r">>, <<"m","d">>, <<"#","F","F","F","F","F","F">>, None),
            TextBlockLayout(<<"l","o","w","e","r","_","c","e","n","t","e","r">>, <<"b","o","l","d">>, <<"m","d">>, <<"#","F","F","F","F","F","F">>, None))

\* mutant: the loop stops after the first token it appends
_enforce_bg_prompt_safety_first_only(prompt) ==
    LET must_have == <<<<"n","o"," ","t","e","x","t">>, <<"n","o"," ","l","o","g","o">>, <<"n","o"," ","w","a","t","e","r","m","a","r","k">>>>
        lower == Lower(prompt)
        missing == SelectSeq(must_have, LAMBDA token : ~Contains(lower, token))
    IN  Join(<<prompt>> \o SubSeq(missing, 1, 1))

_enforce_bg_prompt_safety(prompt) ==
    LET must_have == <<<<"n","o"," ","t","e","x","t">>, <<"n","o"," ","l","o","g","o">>, <<"n","o"," ","w","a","t","e","r","m","a","r","k">>>>
        lower == Lower(prompt)
        missing == SelectSeq(must_have, LAMBDA token : ~Contains(lower, token))
    IN  Join(<<prompt>> \o missing)

_safe_str(v, default) ==
    IF v.t = "NoneType" THEN default
    ELSE LET s == Strip(PyStr(v)) IN IF s # <<>> THEN Str(s) ELSE default

\* mutant: any string is taken over
_safe_literal_any_str(v, allowed, default) ==
    IF v.t = "str" THEN v.s ELSE default

_safe_literal(v, allowed, default) ==
    IF v.t = "str" /\ \E i \in 1..Len(allowed) : allowed[i] = v.s
    THEN v.s ELSE default

\* the allowed= lists parse_block passes to _safe_literal
AllowedPositions ==
    <<<<"u","p","p","e","r","_","c","e","n","t","e","r">>, <<"u","p","p","e","r","_","l","e","f","t">>, <<"u","p","p","e","r","_","r","i","g","h","t">>, <<"c","e","n","t","e","r">>,
      <<"l","o","w","e","r","_","c","e","n","t","e","r">>, <<"l","o","w","e","r","_","l","e","f","t">>, <<"l","o","w","e","r","_","r","i","g","h","t">>>>
AllowedFontStyles == <<<<"r","e","g","u","l","a","r">>, <<"b","o","l","d">>>>
AllowedFontSizes == <<<<"s","m">>, <<"m","d">>, <<"l","g">>, <<"x","l">>>>

\* parse_block of _parse_layout_dict
parse_block(d, key, fb) ==
    LET x == Get(d, key)
        em == Get(x, "emphasis")
        scale == PyFloat(Or(Get(em, "scale"), PyFloatLit(115)))
    IN  IF x.t # "dict" THEN Returned(fb)
        ELSE IF em.t = "dict" /\ Truthy(Get(em, "text")) /\ ~scale.ok THEN scale
        ELSE Returned(TextBlockLayout(
                 _safe_literal(Get(x, "position"), AllowedPositions, fb.position),
                 _safe_literal(Get(x, "font_style"), AllowedFontStyles, fb.font_style),
                 _safe_literal(Get(x, "font_size"), AllowedFontSizes, fb.font_size),
                 PyStr(Or(Get(x, "color_hex"), Str(fb.color_hex))),
                 IF em.t = "dict" /\ Truthy(Get(em, "text"))
                 THEN EmphasisSpec(PyStr(Get(em, "text")),
                                   PyStr(Or(Get(em, "color_hex"), Str(<<"#","F","F","4","D","4","D">>))),
                                   scale.value)
                 ELSE None))

_parse_layout_dict(d, fallback) ==
    LET headline == parse_block(d, "headline", fallback.headline)
        subcopy == parse_block(d, "subcopy", fallback.subcopy)
        cta == parse_block(d, "cta", fallback.cta)
    IN  IF ~headline.ok THEN headline
        ELSE IF ~subcopy.ok THEN subcopy
        ELSE IF ~cta.ok THEN cta
        ELSE Returned(LayoutSpec(headline.value, subcopy.value, cta.value))

_merge_llm_json(llm_json, base_copy, base_bg_prompt, base_layout, base_hints) ==
    LET c == Get(llm_json, "copy")
        copy == IF c.t = "dict"
                THEN CopySpec(PyStr(Or(Get(c, "headline"), Str(base_copy.headline))),
                              PyStr(Or(Get(c, "subcopy"), Str(base_copy.subcopy))),
                              PyStr(Or(Get(c, "cta"), Str(base_copy.cta))))
                ELSE base_copy
        bp == Get(llm_json, "background_prompt")
        bg_prompt == IF bp.t = "str" /\ Strip(bp.s) # <<>>
                     THEN _enforce_bg_prompt_safety(Strip(bp.s))
                     ELSE base_bg_prompt
        l == Get(llm_json, "layout")
        layout == IF l.t = "dict" THEN _parse_layout_dict(l, base_layout)
                  ELSE Returned(base_layout)
        mh == Get(llm_json, "model_hints")
        hints == IF mh.t = "dict"
                 THEN ModelHints(_safe_str(Get(mh, "lora_key"), base_hints.lora_key),
                                 _safe_str(Get(mh, "control_hint"), base_hints.control_hint),
                                 _safe_str(Get(mh, "ip_adapter_ref"), base_hints.ip_adapter_ref))
                 ELSE base_hints
    IN  IF ~layout.ok THEN layout
        ELSE Returned(Plan(copy, bg_prompt, layout.value, hints))

\* mutant: the product is tested before it is trimmed
build_plan_untrimmed_test(product, tone, discount, prompt_extra, llm_json) ==
    LET p == Strip(Or(product, Str(<<>>)).s)
        d == Or(Str(Strip(Or(discount, Str(<<>>)).s)), None)
        e == Or(Str(Strip(Or(prompt_extra, Str(<<>>)).s)), None)
        copy == _build_copy_rule(p, tone, d)
        bg_prompt == _build_background_prompt_rule(p, tone, e)
        layout == _build_layout_rule(tone, d, copy.headline)
        hints == ModelHints(None, None, None)
    IN  IF ~Truthy(product) THEN Raised("ValueError", "build_plan")
        ELSE IF Truthy(llm_json)
        THEN _merge_llm_json(llm_json, copy, bg_prompt, layout, hints)
        ELSE Returned(Plan(copy, bg_prompt, layout, hints))

build_plan(product, tone, discount, prompt_extra, llm_json) ==
    LET p == Strip(Or(product, Str(<<>>)).s)
        d == Or(Str(Strip(Or(discount, Str(<<>>)).s)), None)
        e == Or(Str(Strip(Or(prompt_extra, Str(<<>>)).s)), None)
        copy == _build_copy_rule(p, tone, d)
        bg_prompt == _build_background_prompt_rule(p, tone, e)
        layout == _build_layout_rule(tone, d, copy.headline)
        hints == ModelHints(None, None, None)
    IN  IF p = <<>> THEN Raised("ValueError", "build_plan")
        ELSE IF Truthy(llm_json)
        THEN _merge_llm_json(llm_json, copy, bg_prompt, layout, hints)
        ELSE Returned(Plan(copy, bg_prompt, layout, hints))

-----------------------------------------------------------------------------
(* app/pipeline/background.py *)

BackgroundConfig(backend, size) == [backend |-> backend, size |-> size]

BackgroundBlacklist ==
    <<<<"t","e","x","t">>, <<"l","o","g","o">>, <<"w","a","t","e","r","m","a","r","k">>, <<"ko:geu-l","ko:ja">>, <<"ko:mu-n","ko:gu">>, <<"ko:te-k","ko:seu","ko:teu">>, <<"ko:ro","ko:go">>>>

_assert_prompt_safe(prompt) ==
    IF \E i \in 1..Len(BackgroundBlacklist) :
           Contains(Lower(prompt), BackgroundBlacklist[i])
    THEN Raised("ValueError", "_assert_prompt_safe")
    ELSE Returned(None)

\* The canvas is kept as its scanlines: every pixel of row y has colour
\* rows[y].  order is the permutation random.sample(base_colors, 2) drew.
\* int(c1 * (1 - t) + c2 * t) with t = y / max(1, h - 1) is computed exactly.
_generate_fallback_background(prompt, size, order) ==
    LET w == size[1]
        h == size[2]
        prompt_l == Lower(prompt)
        base_colors ==
            IF Contains(prompt_l, <<"l","u","x","u","r","y">>) \/ Contains(prompt_l, <<"p","r","e","m","i","u","m">>)
            THEN <<<<40, 30, 20>>, <<90, 70, 50>>>>
            ELSE IF Contains(prompt_l, <<"w","a","r","m">>) \/ Contains(prompt_l, <<"c","o","z","y">>)
            THEN <<<<120, 80, 50>>, <<220, 180, 140>>>>
            ELSE <<<<200, 200, 200>>, <<245, 245, 245>>>>
        c1 == base_colors[order[1]]
        c2 == base_colors[order[2]]
        den == IF h - 1 > 1 THEN h - 1 ELSE 1
        Mix(a, b, y) == (a * (den - y) + b * y) \div den
    IN  [mode |-> "RGB", size |-> size,
         rows |-> [y \in 0..(h - 1) |->
                      <<Mix(c1[1], c2[1], y), Mix(c1[2], c2[2], y), Mix(c1[3], c2[3], y)>>]]

generate_background(prompt, cfg, order) ==
    LET safe == _assert_prompt_safe(prompt)
    IN  IF ~safe.ok THEN safe
        ELSE IF cfg.backend = "fallback"
        THEN Returned(_generate_fallback_background(prompt, cfg.size, order))
        ELSE Raised("NotImplementedError", "generate_background")

\* the two orders random.sample can return for a palette of two colours
SampleOrders == {<<1, 2>>, <<2, 1>>}

-----------------------------------------------------------------------------
(* app/pipeline/segment.py, relight.py, upscale.py: backend selection.    *)
(* Pixels that Pillow's filters compute (resampling, blur) are kept as the  *)
(* operation and its arguments; sizes, positions and factors are computed. *)

\* max(0.0, min(0.45, margin)), in hundredths
CenterMargin(margin) ==
    IF margin > 45 THEN 45 ELSE IF margin < 0 THEN 0 ELSE margin

\* A photo is kept as its mode, its size and bbox: the bounding box
\* <<left, upper, right, lower>> that mask_img.getbbox() finds for its
\* pixels, None for a mask that is zero everywhere.  The alpha channel is
\* kept as the parameters the mask was computed with.
_segment_fallback(image, cfg) ==
    LET b == IF cfg.bg_sample_border > 4 THEN cfg.bg_sample_border ELSE 4
        mask_img == [mode |-> "L", size |-> image.size, of |-> image, border |-> b,
                     margin |-> CenterMargin(cfg.fg_center_margin),
                     blur |-> IF cfg.feather_radius > 0 THEN cfg.feather_radius ELSE 0]
        out == [mode |-> "RGBA", size |-> image.size, alpha |-> mask_img]
    IN  IF image.bbox # None
        THEN [out EXCEPT !.size = <<image.bbox[3] - image.bbox[1],
                                    image.bbox[4] - image.bbox[2]>>]
        ELSE out

segment_product(image, cfg) ==
    IF cfg.backend = "fallback" THEN Returned(_segment_fallback(image, cfg))
    ELSE Raised("NotImplementedError", "segment_product")

\* int(x) of the rational n / d, d > 0: truncation toward zero
IntOf(n, d) == IF n >= 0 THEN n \div d ELSE -((-n) \div d)

\* Image.convert: the same picture in another mode
convert(image, mode) == [image EXCEPT !.mode = mode]

\* Image.resize raises ValueError when a side of the new size is below 1
resize(image, size) ==
    IF size[1] < 1 \/ size[2] < 1 THEN Raised("ValueError", "Image.resize")
    ELSE Returned([mode |-> image.mode, size |-> size, resized |-> image])

\* Sizes <<bg_w, bg_h, fg_w, fg_h>> for which fg_w * scale (fg_h * scale),
\* with scale = min(bg_w / fg_w, bg_h / fg_h) * 0.6 in binary64, lies just
\* below its exact integer value, so that int() yields one less: 0.6 is not
\* representable.  The tables cover CanvasSizes \X CutoutSizes below and the
\* cutout of UploadedPhoto on a canvas of INSTAGRAM_FEED_SIZE.
Binary64WidthBelow == {}
Binary64HeightBelow == {<<4, 5, 6, 5>>, <<1080, 1080, 240, 280>>}

\* the alpha channel of fg, black, scaled by opacity and blurred
_make_shadow(fg, opacity, blur, offset) ==
    [mode |-> "RGBA", size |-> fg.size, alpha_of |-> fg,
     opacity |-> opacity, blur |-> IF blur > 0 THEN blur ELSE 0]

\* Mean of the central region bg_arr[int(h*0.4):int(h*0.6), int(w*0.4):int(w*0.6)]
\* over pixels and channels, as the rational sum / count; count = 0 is the
\* empty region, whose mean is nan.  The pixels of a row are equal, so the
\* number of columns cancels from the quotient.
CenterSum(background) ==
    LET w == background.size[1]
        h == background.size[2]
        top == IntOf(4 * h, 10)
        bottom == IntOf(6 * h, 10)
        ncols == IntOf(6 * w, 10) - IntOf(4 * w, 10)
        RECURSIVE RowSum(_, _)
        RowSum(lo, hi) ==
            IF lo >= hi THEN 0
            ELSE IF hi = lo + 1
            THEN LET c == background.rows[lo] IN c[1] + c[2] + c[3]
            ELSE LET mid == (lo + hi) \div 2
                 IN  RowSum(lo, mid) + RowSum(mid, hi)
    IN  IF ncols = 0 THEN [sum |-> 0, count |-> 0]
        ELSE [sum |-> RowSum(top, bottom), count |-> 3 * (bottom - top)]

\* factor = 1.0 + (bg_lum - 0.5) * strength as the rational num / den, with
\* bg_lum = sum / (count * 255) and strength in hundredths; not clamped
ToneFactorUnclamped(lum, strength) ==
    [num |-> 2 * 255 * lum.count * 100 + (2 * lum.sum - 255 * lum.count) * strength,
     den |-> 2 * 255 * lum.count * 100]

ToneFactorUpperClampOnly(lum, strength) ==
    IF lum.count = 0 THEN [num |-> 115, den |-> 100]
    ELSE LET f == ToneFactorUnclamped(lum, strength)
         IN  IF 20 * f.num > 23 * f.den THEN [num |-> 115, den |-> 100] ELSE f

\* max(0.85, min(1.15, factor)); a nan factor (empty central region) compares
\* false with everything, so min(1.15, nan) is 1.15
ToneFactor(lum, strength) ==
    IF lum.count = 0 THEN [num |-> 115, den |-> 100]
    ELSE LET f == ToneFactorUnclamped(lum, strength)
         IN  IF 20 * f.num > 23 * f.den THEN [num |-> 115, den |-> 100]
             ELSE IF 20 * f.num < 17 * f.den THEN [num |-> 85, den |-> 100]
             ELSE f

_tone_match_foreground(background, fg, strength) ==
    [mode |-> fg.mode, size |-> fg.size, enhanced |-> fg,
     factor |-> ToneFactor(CenterSum(background), strength)]

\* fg = None: fg.convert raises AttributeError
_relight_fallback(background, fg, cfg) ==
    IF fg = None THEN Raised("AttributeError", "_relight_fallback")
    ELSE
    LET bg == convert(background, "RGB")
        fg0 == convert(fg, "RGBA")
        bg_w == bg.size[1]
        bg_h == bg.size[2]
        fg_w == fg0.size[1]
        fg_h == fg0.size[2]
        key == <<bg_w, bg_h, fg_w, fg_h>>
        \* scale = min(bg_w / fg_w, bg_h / fg_h) * 0.6 = (3 * sn) / (5 * sd)
        byWidth == bg_w * fg_h <= bg_h * fg_w
        sn == IF byWidth THEN bg_w ELSE bg_h
        sd == IF byWidth THEN fg_w ELSE fg_h
        new_w == IntOf(fg_w * 3 * sn, 5 * sd)
                     - (IF key \in Binary64WidthBelow THEN 1 ELSE 0)
        new_h == IntOf(fg_h * 3 * sn, 5 * sd)
                     - (IF key \in Binary64HeightBelow THEN 1 ELSE 0)
        resized == resize(fg0, <<new_w, new_h>>)
    IN  IF ~resized.ok THEN resized
        ELSE
        LET fg1 == resized.value
            x == (bg_w - new_w) \div 2
            \* int(bg_h * 0.55 - fg.height / 2)
            y == IntOf(11 * bg_h - 10 * new_h, 20)
            shadow == _make_shadow(fg1, cfg.shadow_opacity, cfg.shadow_blur,
                                   cfg.shadow_offset)
            fg2 == _tone_match_foreground(bg, fg1, cfg.tone_match_strength)
        IN  Returned([mode |-> "RGB", size |-> bg.size, rows |-> bg.rows,
                      pasted |-> <<[image |-> shadow,
                                    at |-> <<x + cfg.shadow_offset[1],
                                             y + cfg.shadow_offset[2]>>],
                                   [image |-> fg2, at |-> <<x, y>>]>>])

relight_and_compose(background, foreground_rgba, cfg) ==
    IF cfg.backend = "fallback"
    THEN _relight_fallback(background, foreground_rgba, cfg)
    ELSE Raised("NotImplementedError", "relight_and_compose")

RatFirst(a, b) == a

\* the smaller of the rationals a and b, each <<numerator, denominator>>
\* with a positive denominator; Python's min keeps the first of equals
RatMin(a, b) == IF b[1] * a[2] < a[1] * b[2] THEN b ELSE a

ClampScaleUncapped(scale_w, scale_h) == RatMin(scale_w, scale_h)

\* min(scale_w, scale_h, 1.0)
ClampScale(scale_w, scale_h) == RatMin(RatMin(scale_w, scale_h), <<1, 1>>)

\* n / d with d # 0, the denominator made positive
Rat(n, d) == IF d < 0 THEN <<-n, -d>> ELSE <<n, d>>

\* max_size = <<>> stands for None.  max_w / new_w raises ZeroDivisionError
\* for new_w = 0.  For target sizes below 47 the binary64 products
\* new_w * scale equal the exact ones.
_upscale_fallback(image, cfg) ==
    LET w == image.size[1]
        h == image.size[2]
        new_w == w * cfg.scale
        new_h == h * cfg.scale
    IN  IF cfg.max_size = <<>> THEN resize(image, <<new_w, new_h>>)
        ELSE
        LET max_w == cfg.max_size[1]
            max_h == cfg.max_size[2]
        IN  IF (max_w # 0 /\ new_w = 0) \/ (max_h # 0 /\ new_h = 0)
            THEN Raised("ZeroDivisionError", "_upscale_fallback")
            ELSE
            LET scale_w == IF max_w # 0 THEN Rat(max_w, new_w) ELSE <<1, 1>>
                scale_h == IF max_h # 0 THEN Rat(max_h, new_h) ELSE <<1, 1>>
                scale == ClampScale(scale_w, scale_h)
            IN  resize(image, <<IntOf(new_w * scale[1], scale[2]),
                                IntOf(new_h * scale[1], scale[2])>>)

upscale_image(image, cfg) ==
    IF cfg.backend = "fallback" THEN _upscale_fallback(image, cfg)
    ELSE Raised("NotImplementedError", "upscale_image")

-----
(* app/services/image_service.py *)

\* rows 0 .. int(h * 0.6) - 1 keep the first rectangle's colour, the second
\* rectangle covers the rest
_generate_mock(size, prompt) ==
    LET h == size[2]
        cut == (6 * h) \div 10
    IN  [mode |-> "RGB", size |-> size,
         rows |-> [y \in 0..(h - 1) |->
                      IF y < cut THEN <<230, 230, 230>> ELSE <<210, 210, 210>>]]

_generate_openai(size, prompt, negative_prompt) ==
    Raised("NotImplementedError", "_generate_openai")

_generate_huggingface(size, prompt, negative_prompt) ==
    Raised("NotImplementedError", "_generate_huggingface")

\* env: the value of the environment variable IMAGE_PROVIDER, None when unset
image_service_generate_background(env, size, prompt, negative_prompt) ==
    LET provider == Lower(IF env.t = "NoneType" THEN <<"m","o","c","k">> ELSE env.s)
    IN  IF provider = <<"o","p","e","n","a","i">>
        THEN _generate_openai(size, prompt, negative_prompt)
        ELSE IF provider \in {<<"h","f">>, <<"h","u","g","g","i","n","g","f","a","c","e">>}
        THEN _generate_huggingface(size, prompt, negative_prompt)
        ELSE Returned(_generate_mock(size, prompt))

-----------------------------------------------------------------------------
(* app/services/layout_service.py *)

ResolvedTextLayout(x, y, font_px, anchor, color, emphasis) ==
    [x |-> x, y |-> y, font_px |-> font_px, anchor |-> anchor, color |-> color,
     emphasis |-> emphasis]

\* int(h * 0.10) and the like are exact for the heights used below
_safe_vertical_margins_default_only(platform, h) ==
    <<IntOf(h, 10), IntOf(h, 10)>>

_safe_vertical_margins(platform, h) ==
    IF platform = <<"i","n","s","t","a","g","r","a","m">> THEN <<IntOf(10 * h, 100), IntOf(10 * h, 100)>>
    ELSE IF platform = <<"p","o","s","t","e","r">> THEN <<IntOf(8 * h, 100), IntOf(8 * h, 100)>>
    ELSE IF platform = <<"b","a","n","n","e","r">> THEN <<IntOf(15 * h, 100), IntOf(15 * h, 100)>>
    ELSE <<IntOf(h, 10), IntOf(h, 10)>>

FontPxTable(platform) ==
    IF platform = <<"p","o","s","t","e","r">> THEN <<48, 72, 96, 140>>
    ELSE IF platform = <<"b","a","n","n","e","r">> THEN <<32, 48, 64, 88>>
    ELSE <<36, 52, 72, 96>>          \* "instagram", and base.get's default

\* base.get(platform, base["instagram"])[font_size]: KeyError for a size
\* that is no key of the table
_resolve_font_px(font_size, platform) ==
    IF font_size = <<"s","m">> THEN Returned(FontPxTable(platform)[1])
    ELSE IF font_size = <<"m","d">> THEN Returned(FontPxTable(platform)[2])
    ELSE IF font_size = <<"l","g">> THEN Returned(FontPxTable(platform)[3])
    ELSE IF font_size = <<"x","l">> THEN Returned(FontPxTable(platform)[4])
    ELSE Raised("KeyError", "_resolve_font_px")

_resolve_position_xy(position, w, h, safe_top, safe_bottom) ==
    IF position = <<"u","p","p","e","r","_","c","e","n","t","e","r">> THEN <<w \div 2, safe_top, "ma">>
    ELSE IF position = <<"u","p","p","e","r","_","l","e","f","t">> THEN <<IntOf(8 * w, 100), safe_top, "la">>
    ELSE IF position = <<"u","p","p","e","r","_","r","i","g","h","t">> THEN <<IntOf(92 * w, 100), safe_top, "ra">>
    ELSE IF position = <<"c","e","n","t","e","r">> THEN <<w \div 2, h \div 2, "mm">>
    ELSE IF position = <<"l","o","w","e","r","_","c","e","n","t","e","r">> THEN <<w \div 2, h - safe_bottom, "md">>
    ELSE IF position = <<"l","o","w","e","r","_","l","e","f","t">> THEN <<IntOf(8 * w, 100), h - safe_bottom, "ld">>
    ELSE IF position = <<"l","o","w","e","r","_","r","i","g","h","t">> THEN <<IntOf(92 * w, 100), h - safe_bottom, "rd">>
    ELSE <<w \div 2, h \div 2, "mm">>

HexDigits == <<"0", "1", "2", "3", "4", "5", "6", "7", "8", "9",
               "a", "b", "c", "d", "e", "f">>

IsHex(c) == \E i \in 1..16 : HexDigits[i] = Lower(<<c>>)[1]

HexValue(c) == (CHOOSE i \in 1..16 : HexDigits[i] = Lower(<<c>>)[1]) - 1

\* int(two characters, 16): two hex digits; or a sign or a blank next to one
\* hex digit; anything else raises ValueError
HexPair(a, b) ==
    IF IsHex(a) /\ IsHex(b) THEN Returned(16 * HexValue(a) + HexValue(b))
    ELSE IF (a = "+" \/ IsSpace(a)) /\ IsHex(b) THEN Returned(HexValue(b))
    ELSE IF a = "-" /\ IsHex(b) THEN Returned(-HexValue(b))
    ELSE IF IsHex(a) /\ IsSpace(b) THEN Returned(HexValue(a))
    ELSE Raised("ValueError", "_hex_to_rgba")

RECURSIVE LStripHash(_)
LStripHash(s) == IF s # <<>> /\ Head(s) = "#" THEN LStripHash(Tail(s)) ELSE s

\* alpha = 255
_hex_to_rgba(hex_color) ==
    LET hex == LStripHash(hex_color)
    IN  IF Len(hex) # 6 THEN Returned(<<255, 255, 255, 255>>)
        ELSE LET r == HexPair(hex[1], hex[2])
                 g == HexPair(hex[3], hex[4])
                 b == HexPair(hex[5], hex[6])
             IN  IF ~r.ok THEN r ELSE IF ~g.ok THEN g ELSE IF ~b.ok THEN b
                 ELSE Returned(<<r.value, g.value, b.value, 255>>)

resolve_text_layout(canvas_size, position, font_size, color_hex, emphasis, platform) ==
    LET w == canvas_size[1]
        h == canvas_size[2]
        safe == _safe_vertical_margins(platform, h)
        font_px == _resolve_font_px(font_size, platform)
        xya == _resolve_position_xy(position, w, h, safe[1], safe[2])
        color == _hex_to_rgba(color_hex)
    IN  IF ~font_px.ok THEN font_px
        ELSE IF ~color.ok THEN color
        ELSE Returned(ResolvedTextLayout(xya[1], xya[2], font_px.value, xya[3],
                                         color.value, emphasis))

-----------------------------------------------------------------------------
(* app/services/render_service.py *)

FONT_REGULAR == <<"a","s","s","e","t","s","/","f","o","n","t","s","/","N","o","t","o","S","a","n","s","K","R","-","R","e","g","u","l","a","r",".","o","t","f">>
FONT_BOLD == <<"a","s","s","e","t","s","/","f","o","n","t","s","/","N","o","t","o","S","a","n","s","K","R","-","B","o","l","d",".","o","t","f">>

\* ImageFont.load_default(): Pillow's built-in font
DefaultFont == [path |-> <<"l","o","a","d","_","d","e","f","a","u","l","t">>, size |-> 10]

\* fonts: the font files that exist.  ImageFont.truetype raises for a
\* missing file (and for a size below 1); any exception is caught and the
\* default font returned, so the call itself never fails.
_load_font(style, size, fonts) ==
    LET path == IF style = <<"b","o","l","d">> THEN FONT_BOLD ELSE FONT_REGULAR
    IN  IF path \in fonts /\ size > 0 THEN Returned([path |-> path, size |-> size])
        ELSE Returned(DefaultFont)

\* one draw.text call; x2 is twice the x coordinate (the emphasis path
\* places text at half pixels)
DrawText(x2, y, text, font, fill, anchor) ==
    [x2 |-> x2, y |-> y, text |-> text, font |-> font, fill |-> fill,
     anchor |-> anchor]

\* font.getlength(text) for a font whose glyphs all advance one em
getlength(font, text) == font.size * Len(text)

\* the index of the first occurrence of target in text, 0 if there is none
Find(text, target) ==
    LET starts == {i \in 1..(Len(text) - Len(target) + 1) :
                      SubSeq(text, i, i + Len(target) - 1) = target}
    IN  IF starts = {} THEN 0 ELSE CHOOSE i \in starts : \A j \in starts : i <= j

\* the target occurs in text: before, target and after are drawn from the
\* left, the whole centred on x
EmphasisSplit(base_xy, anchor, base_font, base_color, text, emphasis, fonts) ==
    LET target == emphasis.text
        at == Find(text, target)
        before == SubSeq(text, 1, at - 1)
        after == SubSeq(text, at + Len(target), Len(text))
        emph_font == _load_font(<<"b","o","l","d">>, IntOf(base_font.size * emphasis.scale, 100), fonts)
        emph_color == _hex_to_rgba(emphasis.color_hex)
    IN  IF ~emph_font.ok THEN emph_font
        ELSE IF ~emph_color.ok THEN emph_color
        ELSE LET bw == getlength(base_font, before)
                 tw == getlength(emph_font.value, target)
                 aw == getlength(base_font, after)
                 start_x2 == 2 * base_xy[1] - (bw + tw + aw)
                 y == base_xy[2]
             IN  Returned(<<DrawText(start_x2, y, before, base_font, base_color, "lm"),
                            DrawText(start_x2 + 2 * bw, y, target, emph_font.value,
                                     emph_color.value, "lm"),
                            DrawText(start_x2 + 2 * bw + 2 * tw, y, after, base_font,
                                     base_color, "lm")>>)

\* emphasis: the EmphasisSpec's __dict__ (text, color_hex, scale in
\* hundredths).  Returns the draw.text calls made, in order.
_draw_text_with_emphasis(base_xy, anchor, base_font, base_color, text, emphasis, fonts) ==
    LET target == emphasis.text
    IN  IF target = <<>> \/ Find(text, target) = 0
        THEN Returned(<<DrawText(2 * base_xy[1], base_xy[2], text, base_font,
                                 base_color, anchor)>>)
        ELSE EmphasisSplit(base_xy, anchor, base_font, base_color, text,
                           emphasis, fonts)

\* spec.emphasis is None or an EmphasisSpec, whose __dict__ is never empty
\* the block drawn with the font that was loaded
DrawWithFont(resolved, font, text, fonts) ==
    IF ~font.ok THEN font
    ELSE IF resolved.emphasis = None
    THEN Returned(<<DrawText(2 * resolved.x, resolved.y, text, font.value,
                             resolved.color, resolved.anchor)>>)
    ELSE _draw_text_with_emphasis(<<resolved.x, resolved.y>>, resolved.anchor,
                                  font.value, resolved.color, text,
                                  resolved.emphasis, fonts)

\* the block drawn at the layout that was resolved
DrawResolved(resolved, text, spec, fonts) ==
    IF ~resolved.ok THEN resolved
    ELSE DrawWithFont(resolved.value,
                      _load_font(spec.font_style, resolved.value.font_px, fonts),
                      text, fonts)

_draw_text_block(canvas_size, text, spec, platform, fonts) ==
    IF text = <<>> THEN Returned(<<>>)
    ELSE DrawResolved(resolve_text_layout(canvas_size, spec.position, spec.font_size,
                                          spec.color_hex, spec.emphasis, platform),
                      text, spec, fonts)

\* the canvas with the three blocks drawn in the order headline, subcopy, cta;
\* the first block that fails ends the rendering
Composite(image, h, s, c) ==
    IF ~h.ok THEN h ELSE IF ~s.ok THEN s ELSE IF ~c.ok THEN c
    ELSE Returned([mode |-> "RGBA", size |-> image.size, under |-> image,
                   drawn |-> h.value \o s.value \o c.value])

\* copy: a dict with the keys headline, subcopy and cta
render_text_layers(image, copy, layout, platform, fonts) ==
    Composite(image,
              _draw_text_block(image.size, copy.headline, layout.headline, platform, fonts),
              _draw_text_block(image.size, copy.subcopy, layout.subcopy, platform, fonts),
              _draw_text_block(image.size, copy.cta, layout.cta, platform, fonts))

-----------------------------------------------------------------------------
(* app/services/copy_service.py *)

\* primary if primary.strip() else fallback
_pick(primary, fallback) == IF Strip(primary) # <<>> THEN primary ELSE fallback

\* the extra hint leaves the subcopy as it is
_finalize(headline, subcopy, cta, extra) ==
    LET h == Strip(headline)
        s == Strip(subcopy)
    IN  [headline |-> IF Len(h) > 20 THEN SubSeq(h, 1, 18) \o <<"u:ellipsis">> ELSE h,
         subcopy |-> IF Len(s) > 40 THEN SubSeq(s, 1, 38) \o <<"u:ellipsis">> ELSE s,
         cta |-> Strip(cta)]

_casual_copy(product, discount, extra) ==
    _finalize(_pick(IF discount # <<>> THEN discount \o <<" ","ko:ji","ko:geu-m","!">>
                    ELSE product \o <<" ","ko:chu","ko:cheo-n","!">>,
                    product \o <<" ","ko:eo","ko:tteo","ko:se","ko:yo","?">>),
              _pick(<<"ko:ga","ko:byeo-p","ko:ge"," ","ko:jeu-l","ko:gi","ko:gi"," ","ko:tta-k"," ","ko:jo-h","ko:a","ko:yo">>, <<"ko:ji","ko:geu-m"," ","ko:ga","ko:ja-ng"," ","ko:i-n","ko:gi"," ","ko:i-ss","ko:neu-n"," ","ko:seo-n","ko:tae-k">>),
              <<"ko:ba","ko:ro"," ","ko:hwa-k","ko:i-n","ko:ha","ko:gi">>, extra)

_premium_copy(product, discount, extra) ==
    _finalize(_pick(IF discount # <<>> THEN product \o <<" ">> \o discount
                    ELSE product \o <<" ","ko:reo-n","ko:chi-ng">>,
                    product \o <<" ","ko:keo-l","ko:re-k","ko:syeo-n">>),
              _pick(<<"ko:wa-n","ko:seo-ng","ko:do"," ","ko:no-ph","ko:eu-n"," ","ko:seo-n","ko:tae-k","ko:eu-l"," ","ko:gyeo-ng","ko:heo-m","ko:ha","ko:se","ko:yo">>, <<"ko:peu","ko:ri","ko:mi","ko:eo-m"," ","ko:mu","ko:deu","ko:reu-l"," ","ko:da-m","ko:a-ss","ko:seu-p","ko:ni","ko:da">>),
              <<"ko:ja","ko:se","ko:hi"," ","ko:bo","ko:gi">>, extra)

_emotional_copy(product, discount, extra) ==
    _finalize(_pick(IF discount # <<>> THEN discount \o <<" ","ko:o","ko:neu-l","ko:ma-n">>
                    ELSE product \o <<" ","ko:ha-n"," ","ko:ja-n","ko:ui"," ","ko:yeo","ko:yu">>,
                    product \o <<"ko:ui"," ","ko:su-n","ko:ga-n">>),
              _pick(<<"ko:i-l","ko:sa-ng"," ","ko:so-k"," ","ko:ja-k","ko:eu-n"," ","ko:hae-ng","ko:bo-k","ko:eu-l"," ","ko:jeo-n","ko:hae","ko:yo">>, <<"ko:ja-m","ko:si"," ","ko:swi","ko:eo","ko:ga","ko:do"," ","ko:gwae-n","ko:cha-nh","ko:a","ko:yo">>),
              <<"ko:ji","ko:geu-m"," ","ko:ma-n","ko:na","ko:bo","ko:se","ko:yo">>, extra)

\* product, discount, extra_hint: None or a str
generate_copy(product, tone, discount, extra_hint) ==
    LET p == Strip(Or(product, Str(<<>>)).s)
        d == Strip(Or(discount, Str(<<>>)).s)
        e == Strip(Or(extra_hint, Str(<<>>)).s)
    IN  IF tone = ToneLuxury THEN _premium_copy(p, d, e)
        ELSE IF tone = ToneEmotional THEN _emotional_copy(p, d, e)
        ELSE _casual_copy(p, d, e)

-----------------------------------------------------------------------------
(* app/core/guards.py *)

\* A path is the sequence of the components of an absolute path.
\* Path.resolve() without symbolic links: "." is dropped, ".." removes the
\* component before it and stays at the root
RECURSIVE ResolveFrom(_, _)
ResolveFrom(done, rest) ==
    IF rest = <<>> THEN done
    ELSE IF Head(rest) = <<".">> THEN ResolveFrom(done, Tail(rest))
    ELSE IF Head(rest) = <<".",".">>
    THEN ResolveFrom(IF done = <<>> THEN <<>> ELSE SubSeq(done, 1, Len(done) - 1),
                     Tail(rest))
    ELSE ResolveFrom(Append(done, Head(rest)), Tail(rest))

Resolve(path) == ResolveFrom(<<>>, path)

RECURSIVE PathStr(_)
\* str(path): "/" for the root, else each component after a "/"
PathStr(path) ==
    IF path = <<>> THEN <<"/">>
    ELSE IF Len(path) = 1 THEN <<"/">> \o path[1]
    ELSE PathStr(SubSeq(path, 1, Len(path) - 1)) \o <<"/">> \o path[Len(path)]

\* s.startswith(prefix)
StartsWith(s, prefix) ==
    Len(prefix) <= Len(s) /\ SubSeq(s, 1, Len(prefix)) = prefix

ensure_safe_path(base_dir, target_path) ==
    IF ~StartsWith(PathStr(Resolve(target_path)), PathStr(Resolve(base_dir)))
    THEN Raised("ValueError", "ensure_safe_path")
    ELSE Returned(Resolve(target_path))

-----------------------------------------------------------------------------
(* app/storage/local_fs.py, app/core/metadata.py *)

RECURSIVE Replace(_, _, _)
\* s.replace(c, with) for a single character c
Replace(s, c, with) ==
    IF s = <<>> THEN <<>>
    ELSE (IF Head(s) = c THEN with ELSE <<Head(s)>>) \o Replace(Tail(s), c, with)

_safe_email(email) ==
    Replace(Replace(Lower(email), <<"@">>[1], <<"_","a","t","_">>), ".", <<"_","d","o","t","_">>)

\* uuid4().hex is kept as the number of the draw: every draw is fresh
generate_image_id(prefix, draw) == prefix \o <<"_">> \o DecimalDigits(draw)

\* the path save_image writes, and the relative path it returns
ImageFile(email, image_id, ext) ==
    [user |-> _safe_email(email), name |-> image_id \o <<".">> \o ext]

ImageRelPath(image_id, ext) == <<"i","m","a","g","e","s","/">> \o image_id \o <<".">> \o ext

AdMetadata(image_id, ad_type, user_email, product, tone, discount, prompt, prompt_extra, image_provider, image_path, image_size, copy) ==
    [image_id |-> image_id, ad_type |-> ad_type, user_email |-> user_email,
     product |-> product, tone |-> tone, discount |-> discount, prompt |-> prompt,
     prompt_extra |-> prompt_extra, image_provider |-> image_provider,
     image_path |-> image_path, image_size |-> image_size, copy |-> copy,
     created_at |-> "utcnow at import"]

\* A history file is absent, holds the list last dumped into it, or is
\* being rewritten: open(path, "w") has emptied it and json.dump has not
\* finished.  json.load of the last raises JSONDecodeError.
NoFile == [state |-> "absent"]
Written(records) == [state |-> "written", records |-> records]
Truncated == [state |-> "truncated"]

load_history(file) ==
    IF file.state = "absent" THEN Returned(<<>>)
    ELSE IF file.state = "written" THEN Returned(file.records)
    ELSE Raised("JSONDecodeError", "load_history")

-----------------------------------------------------------------------------
(* modules/instagram/pipeline.py *)

INSTAGRAM_FEED_SIZE == <<1080, 1080>>

\* product: a str; extra: None or a str
_build_image_prompt(product, tone, extra) ==
    LET base == <<<<"c","l","e","a","n"," ","m","o","d","e","r","n"," ","i","n","s","t","a","g","r","a","m"," ","a","d"," ","b","a","c","k","g","r","o","u","n","d">>, <<"h","i","g","h"," ","q","u","a","l","i","t","y">>,
                  <<"m","i","n","i","m","a","l"," ","c","o","m","p","o","s","i","t","i","o","n">>, <<"s","t","u","d","i","o"," ","l","i","g","h","t","i","n","g">>, <<"n","o"," ","t","e","x","t">>>>
        mood == IF tone = ToneLuxury THEN <<"l","u","x","u","r","y",","," ","p","r","e","m","i","u","m"," ","m","o","o","d">>
                ELSE IF tone = ToneEmotional THEN <<"w","a","r","m",","," ","e","m","o","t","i","o","n","a","l",","," ","c","o","z","y"," ","m","o","o","d">>
                ELSE <<"b","r","i","g","h","t",","," ","f","r","i","e","n","d","l","y",","," ","c","a","s","u","a","l"," ","m","o","o","d">>
        withProduct == IF Truthy(product)
                       THEN <<<<"f","i","t","s"," ","w","e","l","l"," ","w","i","t","h"," ">> \o product.s>> ELSE <<>>
        withExtra == IF Truthy(extra) THEN <<extra.s>> ELSE <<>>
    IN  Join(base \o <<mood>> \o withProduct \o withExtra)

-----------------------------------------------------------------------------
(* Inputs *)

MaxDiscountPieces == 4

\* the pieces a discount string is put together from
DiscountPieces == <<<<"5">>, <<" ">>, <<"\t">>, <<"%">>, <<"ko:peo","ko:se-n","ko:teu">>, <<"ko:ha-l","ko:i-n">>>>

RECURSIVE Flatten(_)
Flatten(ps) == IF ps = <<>> THEN <<>> ELSE ps[1] \o Flatten(Tail(ps))

DiscountStrings ==
    {Flatten([i \in DOMAIN f |-> DiscountPieces[f[i]]]) :
        f \in UNION {[1..k -> 1..Len(DiscountPieces)] : k \in 0..MaxDiscountPieces}}

Products ==
    {None, Str(<<>>), Str(<<" "," ">>), Str(<<"ko:ra","ko:tte">>), Str(<<" ","ko:si","ko:geu","ko:ni","ko:cheo"," ","ko:ra","ko:tte"," ">>),
     Str(<<"l","o","g","o"," ","c","a","f","e">>), Str(<<"ko:su","ko:je"," ","ko:ba","ko:ni-l","ko:ra"," ","ko:keu","ko:ri-m"," ","ko:ko-l","ko:deu","ko:beu","ko:ru"," ","ko:ra","ko:tte">>)}

Tones == {ToneCasual, ToneLuxury, ToneEmotional, <<"ko:mo","ko:deo-n">>}

Extras ==
    {None, Str(<<>>), Str(<<"s","u","n","s","e","t"," ","b","e","a","c","h">>), Str(<<" ","w","a","r","m"," ","l","i","g","h","t"," ">>),
     Str(<<"a","d","d"," ","t","e","x","t"," ","h","e","r","e">>), Str(<<"b","i","g"," ","L","O","G","O">>), Str(<<"t","e","x","t">>), Str(<<"W","a","t","e","r","m","a","r","k">>),
     Str(<<"c","o","n","t","e","x","t">>), Str(<<"ko:ro","ko:go"," ","ko:keu","ko:ge">>), Str(<<"f","i","t","s"," ","w","e","l","l">>)}

FewDiscounts == {None, Str(<<" "," "," ">>), Str(<<"5","0","%"," ","ko:ha-l","ko:i-n">>), Str(<<"ko:choe","ko:dae"," ","3","0"," ","ko:peo","ko:se-n","ko:teu">>)}

Request(product, tone, discount, prompt_extra, llm_json) ==
    [product |-> product, tone |-> tone, discount |-> discount,
     prompt_extra |-> prompt_extra, llm_json |-> llm_json]

\* values an override may carry where a string is expected
FieldValues ==
    {None, Str(<<>>), Str(<<"ko:teu-k","ko:ga"," ","ko:se","ko:i-l">>), Str(<<"S","A","L","E"," ","3","0","%">>), PyInt(123), PyInt(0),
     PyBool(TRUE)}

CopyOverrides ==
    {Dict([copy |-> Str(<<"ko:teu-k","ko:ga"," ","ko:se","ko:i-l">>)])}
    \cup {Dict([copy |-> Dict([headline |-> v])]) : v \in FieldValues}
    \cup {Dict([copy |-> Dict([subcopy |-> v, cta |-> w])]) :
              v \in FieldValues, w \in {None, Str(<<"ko:gu","ko:mae">>), PyInt(7)}}

BackgroundOverrides ==
    {Dict([background_prompt |-> v]) :
        v \in {None, PyInt(5), Str(<<" "," "," ">>), Str(<<" ","s","u","n","s","e","t"," ","b","e","a","c","h"," ">>),
               Str(<<"b","i","g"," ","l","o","g","o"," ","o","n"," ","t","h","e"," ","w","a","l","l">>), Str(<<"ko:ro","ko:go"," ","ko:po","ko:ha-m">>),
               Str(<<"N","O"," ","T","E","X","T",","," ","N","o"," ","L","o","g","o",","," ","n","o"," ","w","a","t","e","r","m","a","r","k",","," ","c","i","t","y"," ","n","i","g","h","t">>),
               Str(<<"c","i","t","y"," ","n","i","g","h","t",","," ","n","o"," ","t","e","x","t">>)}}

LiteralValues(good, other) == {None, Str(good), Str(other), PyInt(1)}

BlockOverrides ==
    {Dict([position |-> p, font_style |-> s, font_size |-> z]) :
        p \in LiteralValues(<<"c","e","n","t","e","r">>, <<"C","E","N","T","E","R">>),
        s \in LiteralValues(<<"r","e","g","u","l","a","r">>, <<"i","t","a","l","i","c">>),
        z \in LiteralValues(<<"s","m">>, <<"x","x","l">>)}
    \cup {Dict([color_hex |-> c]) : c \in {Str(<<"#","0","0","0","0","0","0">>), PyInt(0), PyInt(255)}}
    \cup {Dict([emphasis |-> e]) : e \in {None, Str(<<"5","0","%">>), EmptyDict}}
    \cup {Dict([emphasis |-> Dict([text |-> x, scale |-> k])]) :
              x \in {None, Str(<<>>), Str(<<"ko:o","ko:neu-l","ko:ma-n">>), Str(<<"S","A","L","E">>), PyInt(50)},
              k \in {None, PyInt(0), PyInt(2), PyFloatLit(130), Str(<<" ","1",".","5"," ">>),
                     Str(<<"b","i","g">>), Dict([x |-> PyInt(2)])}}
    \cup {Dict([emphasis |-> Dict([text |-> Str(<<"5","0","%">>), color_hex |-> c])]) :
              c \in {None, Str(<<"#","0","0","F","F","0","0">>), PyInt(7)}}

LayoutOverrides ==
    {Dict([layout |-> Str(<<"u","p","p","e","r","_","c","e","n","t","e","r">>)]), Dict([layout |-> EmptyDict])}
    \cup {Dict([layout |-> Dict([headline |-> b])]) : b \in BlockOverrides}
    \cup {Dict([layout |-> Dict([subcopy |-> b, cta |-> PyInt(1)])]) : b \in BlockOverrides}
    \cup {Dict([layout |-> Dict([cta |-> b])]) : b \in BlockOverrides}

HintOverrides ==
    {Dict([model_hints |-> Str(<<"c","a","f","e","-","v","1">>)])}
    \cup {Dict([model_hints |-> Dict([lora_key |-> v, control_hint |-> w])]) :
              v \in {None, Str(<<" "," ">>), Str(<<" ","c","a","f","e","-","v","1"," ">>), PyInt(7)},
              w \in {None, Str(<<"d","e","p","t","h">>)}}

MixedOverrides ==
    {Dict([copy |-> Dict([headline |-> Str(<<"ko:teu-k","ko:ga"," ","ko:se","ko:i-l">>)]),
           background_prompt |-> Str(<<"s","u","n","s","e","t"," ","b","e","a","c","h">>),
           layout |-> Dict([headline |-> Dict([position |-> Str(<<"c","e","n","t","e","r">>)])]),
           model_hints |-> Dict([ip_adapter_ref |-> Str(<<"r","e","f",".","p","n","g">>)])]),
     Dict([copy |-> Dict([headline |-> Str(<<"ko:teu-k","ko:ga"," ","ko:se","ko:i-l">>)])]),
     Dict([note |-> Str(<<"x">>)])}

Overrides ==
    CopyOverrides \cup BackgroundOverrides \cup LayoutOverrides
    \cup HintOverrides \cup MixedOverrides

Requests ==
    {Request(p, t, d, e, None) :
        p \in Products, t \in Tones, d \in FewDiscounts, e \in Extras}
    \cup {Request(Str(<<"ko:ra","ko:tte">>), t, d, None, EmptyDict) :
              t \in Tones, d \in FewDiscounts}
    \cup {Request(Str(<<"ko:ra","ko:tte">>), ToneCasual, Str(d), None, None) :
              d \in DiscountStrings}
    \cup {Request(p, ToneEmotional, d, Str(<<"s","u","n","s","e","t"," ","b","e","a","c","h">>), j) :
              p \in {Str(<<"ko:ra","ko:tte">>), Str(<<" ">>)},
              d \in {None, Str(<<"5","0","%"," ","ko:ha-l","ko:i-n">>)}, j \in Overrides}

Sizes == {<<1, 1>>, <<3, 2>>, <<4, 5>>}

-----------------------------------------------------------------------------
(* A caller builds a plan and hands its background prompt to the           *)
(* BackgroundGenerator.                                                    *)

Nothing == [t |-> "unset"]

PlanInit ==
    /\ pc = "idle"
    /\ req = Nothing
    /\ plan_result = Nothing
    /\ bg_cfg = Nothing
    /\ bg_result = Nothing
    /\ call = Nothing
    /\ run = Nothing
    /\ world = Nothing
    /\ session_state = [user_email |-> Nothing]

BuildPlan ==
    /\ pc = "idle"
    /\ \E r \in Requests :
        /\ req' = r
        /\ plan_result' = build_plan(r.product, r.tone, r.discount,
                                     r.prompt_extra, r.llm_json)
    /\ pc' = "planned"
    /\ UNCHANGED <<bg_cfg, bg_result, call, run, world, session_state>>

GenerateBackground ==
    /\ pc = "planned"
    /\ plan_result.ok
    /\ \E size \in Sizes, order \in SampleOrders :
        /\ bg_cfg' = BackgroundConfig("fallback", size)
        /\ bg_result' = generate_background(plan_result.value.background_prompt,
                                            bg_cfg', order)
    /\ pc' = "background"
    /\ UNCHANGED <<req, plan_result, call, run, world, session_state>>

PlanNext == BuildPlan \/ GenerateBackground

PlanSpec == PlanInit /\ [][PlanNext]_vars
-----------------------------------------------------------------------------
(* Each stage is invoked with a backend selection; the image provider is   *)
(* selected by the environment variable IMAGE_PROVIDER.                    *)

SegmentConfig(backend) ==
    [backend |-> backend, feather_radius |-> 6, bg_sample_border |-> 24,
     fg_center_margin |-> 18]                    \* 0.18, in hundredths

RelightConfig(backend) ==
    [backend |-> backend, shadow_opacity |-> 35, shadow_blur |-> 24,
     shadow_offset |-> <<0, 24>>, tone_match_strength |-> 15]   \* hundredths

UpscaleConfig(backend, scale, max_size) ==
    [backend |-> backend, scale |-> scale, max_size |-> max_size]

Backends == {"fallback", "Fallback", "", "birefnet", "flux", "ic_light", "realesrgan"}

ProviderEnv ==
    {None, Str(<<"m","o","c","k">>), Str(<<"M","O","C","K">>), Str(<<"o","p","e","n","a","i">>), Str(<<"O","p","e","n","A","I">>),
     Str(<<"h","f">>), Str(<<"h","u","g","g","i","n","g","f","a","c","e">>), Str(<<"H","u","g","g","i","n","g","F","a","c","e">>), Str(<<"f","l","u","x">>),
     Str(<<"s","d","x","l">>), Str(<<"d","a","l","l","-","e">>)}

Photos ==
    {[mode |-> "RGB", size |-> <<4, 4>>, bbox |-> <<1, 1, 3, 4>>],
     [mode |-> "RGBA", size |-> <<3, 5>>, bbox |-> None],
     [mode |-> "RGB", size |-> <<6, 5>>, bbox |-> <<0, 0, 6, 5>>]}

Uniform(size, v) ==
    [mode |-> "RGB", size |-> size, rows |-> [y \in 0..(size[2] - 1) |-> <<v, v, v>>]]

CanvasSizes == {<<1, 1>>, <<3, 2>>, <<4, 5>>, <<5, 4>>, <<6, 6>>}

\* backgrounds handed to the Relighter: black, white, the mock provider's
\* and the fallback generator's
Canvases ==
    UNION {{Uniform(size, 0), Uniform(size, 255),
            _generate_mock(size, <<"p","l","a","i","n"," ","s","t","u","d","i","o">>),
            _generate_fallback_background(<<"w","a","r","m"," ","c","o","z","y"," ","c","a","f","e">>, size, <<1, 2>>)} :
           size \in CanvasSizes}

CutoutSizes == {<<4, 4>>, <<3, 5>>, <<5, 3>>, <<6, 5>>, <<1, 6>>, <<2, 2>>}

\* foreground cutouts; None is the absent cutout
Cutouts == {[mode |-> "RGBA", size |-> size] : size \in CutoutSizes} \cup {None}

\* tone_match_strength, in hundredths
Strengths == {-300, -15, 0, 15, 100, 300}

UpscaleInputs ==
    Photos \cup {[mode |-> "RGB", size |-> size] : size \in {<<1, 1>>, <<6, 2>>, <<1, 6>>}}

\* a scale factor is a positive integer ("2x, 4x")
Scales == {1, 2, 3, 4}

\* max_size: None, or a (w, h) limit; 0 on an axis leaves the axis unlimited
MaxSizes ==
    {<<>>, <<0, 0>>, <<0, 5>>, <<5, 0>>, <<1, 1>>, <<4, 4>>, <<8, 8>>, <<7, 100>>,
     <<100, 3>>, <<12, 20>>, <<6, 10>>, <<24, 24>>}

StagePrompts ==
    {<<"w","a","r","m"," ","c","o","z","y"," ","c","a","f","e">>, <<"l","u","x","u","r","y"," ","p","r","e","m","i","u","m"," ","i","n","t","e","r","i","o","r">>, <<"p","l","a","i","n"," ","s","t","u","d","i","o">>,
     <<"c","l","e","a","n"," ","s","c","e","n","e",","," ","n","o"," ","t","e","x","t",","," ","n","o"," ","l","o","g","o",","," ","n","o"," ","w","a","t","e","r","m","a","r","k">>, <<"ko:ro","ko:go"," ","ko:po","ko:ha-m">>}

BackendInit ==
    /\ pc = "idle"
    /\ req = Nothing
    /\ plan_result = Nothing
    /\ bg_cfg = Nothing
    /\ bg_result = Nothing
    /\ call = Nothing
    /\ run = Nothing
    /\ world = Nothing
    /\ session_state = [user_email |-> Nothing]

RunSegment ==
    /\ pc = "idle"
    /\ \E image \in Photos, b \in Backends :
        call' = [stage |-> "segment", backend |-> b, image |-> image,
                 outcome |-> segment_product(image, SegmentConfig(b))]
    /\ pc' = "called"
    /\ UNCHANGED <<req, plan_result, bg_cfg, bg_result, run, world, session_state>>

RunBackground ==
    /\ pc = "idle"
    /\ \E prompt \in StagePrompts, b \in Backends, size \in Sizes, order \in SampleOrders :
        call' = [stage |-> "background", backend |-> b, prompt |-> prompt,
                 size |-> size, again |-> Nothing,
                 outcome |-> generate_background(prompt, BackgroundConfig(b, size), order)]
    /\ pc' = "called"
    /\ UNCHANGED <<req, plan_result, bg_cfg, bg_result, run, world, session_state>>

RunRelight ==
    /\ pc = "idle"
    /\ \E background \in Canvases, fg \in Cutouts, b \in Backends, st \in Strengths :
        LET cfg == [RelightConfig(b) EXCEPT !.tone_match_strength = st]
        IN  call' = [stage |-> "relight", backend |-> b, background |-> background,
                     foreground_rgba |-> fg, strength |-> st,
                     outcome |-> relight_and_compose(background, fg, cfg)]
    /\ pc' = "called"
    /\ UNCHANGED <<req, plan_result, bg_cfg, bg_result, run, world, session_state>>

RunUpscale ==
    /\ pc = "idle"
    /\ \E image \in UpscaleInputs, b \in Backends, scale \in Scales,
          max_size \in MaxSizes :
        call' = [stage |-> "upscale", backend |-> b, image |-> image,
                 scale |-> scale, max_size |-> max_size,
                 outcome |-> upscale_image(image, UpscaleConfig(b, scale, max_size))]
    /\ pc' = "called"
    /\ UNCHANGED <<req, plan_result, bg_cfg, bg_result, run, world, session_state>>

RenderTexts ==
    {<<>>, <<"5","0","%"," ","ko:ha-l","ko:i-n"," ","ko:o","ko:neu-l","ko:ma-n">>, <<"ko:choe","ko:dae"," ","3","0"," ","ko:peo","ko:se-n","ko:teu"," ","ko:ji","ko:geu-m","!">>, <<"ko:o","ko:neu-l"," ","5","0","%"," ","+"," ","5","0","%"," ","ko:deo">>}

RenderEmphases ==
    {None,
     EmphasisSpec(<<"5","0","%">>, <<"#","F","F","4","D","4","D">>, 120),
     EmphasisSpec(<<"3","0","ko:peo","ko:se-n","ko:teu">>, <<"#","F","F","4","D","4","D">>, 120),
     EmphasisSpec(<<"5","0","%">>, <<"#","G","G","4","D","4","D">>, 115),
     EmphasisSpec(<<>>, <<"#","F","F","4","D","4","D">>, 120)}

\* color_hex is any string: "#RRGGBB", a colour name, six characters that
\* are no hex digits
RenderColors == {<<"#","F","F","F","F","F","F">>, <<"#","1","a","2","B","3","c">>, <<"r","e","d">>, <<"#","G","G","G","G","G","G">>}

RenderBlocks ==
    {TextBlockLayout(position, font_style, font_size, color_hex, emphasis) :
        position \in Positions, font_style \in FontStyles,
        font_size \in {<<"m","d">>, <<"x","l">>}, color_hex \in RenderColors,
        emphasis \in RenderEmphases}

Platforms == {<<"i","n","s","t","a","g","r","a","m">>, <<"p","o","s","t","e","r">>, <<"b","a","n","n","e","r">>, <<"s","t","o","r","y">>}

RenderCanvasSizes == {<<20, 30>>, <<27, 13>>}

\* the font files present under assets/fonts
FontSets == {{FONT_REGULAR, FONT_BOLD}, {FONT_REGULAR}, {}}

RunDrawTextBlock ==
    /\ pc = "idle"
    /\ \E canvas_size \in RenderCanvasSizes, text \in RenderTexts,
          spec \in RenderBlocks, platform \in Platforms, fonts \in FontSets :
        call' = [stage |-> "draw_text_block", backend |-> "fallback",
                 canvas_size |-> canvas_size, text |-> text, spec |-> spec,
                 platform |-> platform, fonts |-> fonts,
                 outcome |-> _draw_text_block(canvas_size, text, spec, platform, fonts)]
    /\ pc' = "called"
    /\ UNCHANGED <<req, plan_result, bg_cfg, bg_result, run, world, session_state>>

RunImageService ==
    /\ pc = "idle"
    /\ \E env \in ProviderEnv, size \in Sizes, prompt \in StagePrompts :
        call' = [stage |-> "image_service", env |-> env, prompt |-> prompt,
                 size |-> size,
                 outcome |-> image_service_generate_background(
                                 env, size, prompt, <<"t","e","x","t",","," ","w","a","t","e","r","m","a","r","k",","," ","l","o","g","o">>)]
    /\ pc' = "called"
    /\ UNCHANGED <<req, plan_result, bg_cfg, bg_result, run, world, session_state>>

\* the BackgroundGenerator is invoked a second time with the same prompt
\* and config; random.sample draws afresh
RunBackgroundAgain ==
    /\ pc = "called"
    /\ call.stage = "background"
    /\ \E order \in SampleOrders :
        call' = [call EXCEPT !.again =
                     generate_background(call.prompt,
                                         BackgroundConfig(call.backend, call.size),
                                         order)]
    /\ pc' = "repeated"
    /\ UNCHANGED <<req, plan_result, bg_cfg, bg_result, run, world, session_state>>

LayoutCanvasSizes == RenderCanvasSizes \cup {<<1, 1>>, <<1080, 1080>>, <<1200, 628>>}

LayoutPositions == Positions \cup {<<"m","i","d","d","l","e">>, <<>>}

RunResolveTextLayout ==
    /\ pc = "idle"
    /\ \E canvas_size \in LayoutCanvasSizes, position \in LayoutPositions,
          font_size \in {<<"s","m">>, <<"l","g">>}, platform \in Platforms :
        call' = [stage |-> "resolve_text_layout", backend |-> "fallback",
                 canvas_size |-> canvas_size, position |-> position,
                 platform |-> platform,
                 outcome |-> resolve_text_layout(canvas_size, position, font_size,
                                                 <<"#","F","F","F","F","F","F">>, None, platform)]
    /\ pc' = "called"
    /\ UNCHANGED <<req, plan_result, bg_cfg, bg_result, run, world, session_state>>

EmailInputs ==
    {<<"k","i","m","@","s","h","o","p",".","k","r">>, <<"K","i","m","@","S","h","o","p",".","K","R">>, <<"l","e","e","@","s","h","o","p",".","k","r">>, <<"k","i","m",".","l","e","e","@","s","h","o","p",".","k","r">>,
     <<"k","i","m","_","d","o","t","_","l","e","e","@","s","h","o","p",".","k","r">>, <<"k","i","m","l","e","e","@","s","h","o","p",".","k","r">>, <<"k","i","m","@","s","h","o","p",".","c","o",".","k","r">>}

\* the directories _user_root gives two users
RunUserRoot ==
    /\ pc = "idle"
    /\ \E a \in EmailInputs, b \in EmailInputs :
        call' = [stage |-> "user_root", backend |-> "fallback", a |-> a, b |-> b,
                 outcome |-> <<_safe_email(a), _safe_email(b)>>]
    /\ pc' = "called"
    /\ UNCHANGED <<req, plan_result, bg_cfg, bg_result, run, world, session_state>>

BaseDirs ==
    {<<<<"o","u","t","p","u","t","s">>, <<"u","s","e","r","s">>, <<"k","i","m">>>>,
     <<<<"o","u","t","p","u","t","s">>, <<"u","s","e","r","s">>, <<"k","i","m">>, <<"i","m","a","g","e","s">>, <<".",".">>>>,
     <<<<"o","u","t","p","u","t","s">>>>}

TargetPaths ==
    {<<<<"o","u","t","p","u","t","s">>, <<"u","s","e","r","s">>, <<"k","i","m">>>>,
     <<<<"o","u","t","p","u","t","s">>, <<"u","s","e","r","s">>, <<"k","i","m">>, <<"i","m","a","g","e","s">>, <<"a",".","p","n","g">>>>,
     <<<<"o","u","t","p","u","t","s">>, <<"u","s","e","r","s">>, <<"k","i","m">>, <<".">>, <<"h","i","s","t","o","r","y",".","j","s","o","n">>>>,
     <<<<"o","u","t","p","u","t","s">>, <<"u","s","e","r","s">>, <<"k","i","m">>, <<".",".">>, <<"l","e","e">>, <<"h","i","s","t","o","r","y",".","j","s","o","n">>>>,
     <<<<"o","u","t","p","u","t","s">>, <<"u","s","e","r","s">>, <<"k","i","m","2">>, <<"i","m","a","g","e","s">>, <<"a",".","p","n","g">>>>,
     <<<<"o","u","t","p","u","t","s">>, <<"u","s","e","r","s">>, <<"k","i","m">>, <<"i","m","a","g","e","s">>, <<".",".">>, <<".",".">>, <<"k","i","m","_","b","a","c","k","u","p">>>>,
     <<<<"o","u","t","p","u","t","s">>, <<"u","s","e","r","s">>>>,
     <<<<"o","u","t","p","u","t","s","2">>, <<"x">>>>,
     <<<<"e","t","c">>, <<"p","a","s","s","w","d">>>>,
     <<<<".",".">>, <<".",".">>, <<"e","t","c">>, <<"p","a","s","s","w","d">>>>,
     <<>>}

RunEnsureSafePath ==
    /\ pc = "idle"
    /\ \E base_dir \in BaseDirs, target_path \in TargetPaths :
        call' = [stage |-> "ensure_safe_path", backend |-> "fallback",
                 base_dir |-> base_dir, target_path |-> target_path,
                 outcome |-> ensure_safe_path(base_dir, target_path)]
    /\ pc' = "called"
    /\ UNCHANGED <<req, plan_result, bg_cfg, bg_result, run, world, session_state>>

BackendNext ==
    \/ RunImageService \/ RunSegment \/ RunBackground \/ RunRelight \/ RunUpscale
    \/ RunBackgroundAgain \/ RunDrawTextBlock
    \/ RunResolveTextLayout \/ RunUserRoot \/ RunEnsureSafePath

BackendSpec == BackendInit /\ [][BackendNext]_vars

-----------------------------------------------------------------------------
(* Generation requests: each session calls generate_instagram_feed_ad     *)
(* once; the statements of concurrent calls interleave.                    *)

Sessions == {"s1", "s2"}

Emails == {<<"k","i","m","@","s","h","o","p",".","k","r">>, <<"l","e","e","@","s","h","o","p",".","k","r">>}

UploadPath == Str(<<"u","p","l","o","a","d","s","/","l","a","t","t","e",".","p","n","g">>)

\* the picture stored at UploadPath
UploadedPhoto == [mode |-> "RGB", size |-> <<400, 400>>, bbox |-> <<80, 60, 320, 340>>]

RequestArgs ==
    {[user_email |-> e, product |-> Str(<<"ko:si","ko:geu","ko:ni","ko:cheo"," ","ko:ra","ko:tte">>), tone |-> ToneEmotional,
      discount |-> d, prompt_extra |-> x, main_image_path |-> m] :
        e \in Emails, d \in {None, Str(<<"5","0","%"," ","ko:ha-l","ko:i-n">>)}, m \in {None, UploadPath},
        x \in {None, Str(<<"b","i","g"," ","L","O","G","O">>)}}

Idle ==
    [pc |-> "idle", args |-> Nothing, copy |-> Nothing, prompt |-> Nothing,
     image |-> Nothing,
     fg |-> Nothing, image_id |-> Nothing, image_rel_path |-> Nothing,
     loaded |-> Nothing, result |-> Nothing, error |-> Nothing, trace |-> <<>>]

RequestInit ==
    /\ pc = "idle"
    /\ req = Nothing
    /\ plan_result = Nothing
    /\ bg_cfg = Nothing
    /\ bg_result = Nothing
    /\ call = Nothing
    /\ run = [s \in Sessions |-> Idle]
    /\ session_state = [user_email |-> Nothing]
    /\ \E provider \in {None, Str(<<"o","p","e","n","a","i">>)}, fonts \in {{FONT_REGULAR, FONT_BOLD}, {}} :
        world = [provider |-> provider, fonts |-> fonts, images |-> {},
                 history |-> [u \in {_safe_email(e) : e \in Emails} |-> NoFile],
                 draws |-> 0]

PipelineStepBackgroundFirst(at) ==
    CASE at = "call" -> "generate_background"
      [] at = "generate_background" -> "generate_copy"
      [] at = "generate_copy" -> "compose_ad_image"
      [] at = "compose_ad_image" -> "save_image"
      [] at = "save_image" -> "append_history"
      [] at = "append_history" -> "return"

\* the statement that follows statement `at` in generate_instagram_feed_ad
PipelineStep(at) ==
    CASE at = "call" -> "generate_copy"
      [] at = "generate_copy" -> "generate_background"
      [] at = "generate_background" -> "compose_ad_image"
      [] at = "compose_ad_image" -> "save_image"
      [] at = "save_image" -> "append_history"
      [] at = "append_history" -> "return"

\* compose_ad_image: the stage that follows stage `at`; it starts with the
\* Segmenter when a product photo is supplied and with the Relighter otherwise
ComposeStep(at, main_image_path) ==
    CASE at = "compose_ad_image" ->
             IF main_image_path # None THEN "segment_product" ELSE "relight_and_compose"
      [] at = "segment_product" -> "relight_and_compose"
      [] at = "relight_and_compose" -> "upscale_image"
      [] at = "upscale_image" -> "render_text_layers"
      [] at = "render_text_layers" -> PipelineStep("compose_ad_image")

\* the statement after `at`, entering compose_ad_image where it is called
Following(at, args) ==
    LET next == IF at \in {"segment_product", "relight_and_compose",
                           "upscale_image", "render_text_layers"}
                THEN ComposeStep(at, args.main_image_path)
                ELSE PipelineStep(at)
    IN  IF next = "compose_ad_image"
        THEN ComposeStep("compose_ad_image", args.main_image_path) ELSE next

\* session s has run statement `at`, with outcome r; on success `update`
\* holds the locals it assigned
Advance(s, at, r, update) ==
    run' = [run EXCEPT ![s] =
               IF r.ok
               THEN [update EXCEPT !.pc = Following(at, run[s].args),
                                   !.trace = Append(run[s].trace, at)]
               ELSE [run[s] EXCEPT !.pc = "failed", !.error = r,
                                   !.trace = Append(run[s].trace, at)]]

Others == <<pc, req, plan_result, bg_cfg, bg_result, call, session_state>>

Call(s) ==
    /\ run[s].pc = "idle"
    /\ \E args \in RequestArgs :
        run' = [run EXCEPT ![s] = [Idle EXCEPT !.pc = Following("call", args),
                                               !.args = args]]
    /\ UNCHANGED <<world>>
    /\ UNCHANGED Others

GenerateCopy(s) ==
    /\ run[s].pc = "generate_copy"
    /\ \E copy \in {generate_copy(run[s].args.product, run[s].args.tone,
                                    run[s].args.discount, run[s].args.prompt_extra)} :
           Advance(s, "generate_copy", Returned(copy), [run[s] EXCEPT !.copy = copy])
    /\ UNCHANGED <<world>>
    /\ UNCHANGED Others

GenerateBackgroundImage(s) ==
    /\ run[s].pc = "generate_background"
    /\ \E prompt \in {_build_image_prompt(run[s].args.product, run[s].args.tone,
                                           run[s].args.prompt_extra)} :
       \E r \in {image_service_generate_background(
                    world.provider, INSTAGRAM_FEED_SIZE, prompt,
                    <<"t","e","x","t",","," ","w","a","t","e","r","m","a","r","k",","," ","l","o","g","o">>)} :
           Advance(s, "generate_background", r,
                   [run[s] EXCEPT !.prompt = prompt,
                                  !.image = IF r.ok THEN r.value ELSE Nothing])
    /\ UNCHANGED <<world>>
    /\ UNCHANGED Others

\* compose_ad_image, first stage: the Segmenter cuts out the uploaded photo
Segment(s) ==
    /\ run[s].pc = "segment_product"
    /\ \E r \in {segment_product(UploadedPhoto, SegmentConfig("fallback"))} :
           Advance(s, "segment_product", r,
                   [run[s] EXCEPT !.fg = IF r.ok THEN r.value ELSE Nothing])
    /\ UNCHANGED <<world>>
    /\ UNCHANGED Others

\* compose_ad_image: the Relighter gets the cutout, None when no photo was
\* supplied
Relight(s) ==
    /\ run[s].pc = "relight_and_compose"
    /\ \E r \in {relight_and_compose(
                    run[s].image,
                    IF run[s].args.main_image_path = None THEN None ELSE run[s].fg,
                    RelightConfig("fallback"))} :
           Advance(s, "relight_and_compose", r,
                   [run[s] EXCEPT !.image = IF r.ok THEN r.value ELSE Nothing])
    /\ UNCHANGED <<world>>
    /\ UNCHANGED Others

\* compose_ad_image: the Upscaler, clamped to the requested size
Upscale(s) ==
    /\ run[s].pc = "upscale_image"
    /\ \E r \in {upscale_image(run[s].image,
                                UpscaleConfig("fallback", 2, INSTAGRAM_FEED_SIZE))} :
           Advance(s, "upscale_image", r,
                   [run[s] EXCEPT !.image = IF r.ok THEN r.value ELSE Nothing])
    /\ UNCHANGED <<world>>
    /\ UNCHANGED Others

\* compose_ad_image: the text is drawn with the rule-based layout
Render(s) ==
    /\ run[s].pc = "render_text_layers"
    /\ \E layout \in {_build_layout_rule(ToneCasual, None, run[s].copy.headline)} :
       \E r \in {render_text_layers(run[s].image, run[s].copy, layout,
                                    <<"i","n","s","t","a","g","r","a","m">>, world.fonts)} :
           Advance(s, "render_text_layers", r,
                   [run[s] EXCEPT !.image = IF r.ok THEN r.value ELSE Nothing])
    /\ UNCHANGED Others
    /\ UNCHANGED <<world>>

\* generate_image_id and save_image: the file is written
SaveImage(s) ==
    /\ run[s].pc = "save_image"
    /\ LET a == run[s].args
           image_id == generate_image_id(<<"i","n","s","t","a">>, world.draws + 1)
       IN  /\ world' = [world EXCEPT !.draws = @ + 1,
                                     !.images = @ \cup {ImageFile(a.user_email,
                                                                  image_id, <<"p","n","g">>)}]
           /\ run' = [run EXCEPT ![s] =
                         [@ EXCEPT !.pc = "load_history",
                                   !.trace = Append(@, "save_image"),
                                   !.image_id = image_id,
                                   !.image_rel_path = ImageRelPath(image_id, <<"p","n","g">>)]]
    /\ UNCHANGED Others

\* append_history, history = load_history(email)
LoadHistory(s) ==
    /\ run[s].pc = "load_history"
    /\ \E r \in {load_history(world.history[_safe_email(run[s].args.user_email)])} :
           run' = [run EXCEPT ![s] =
                      IF r.ok THEN [@ EXCEPT !.pc = "open_history", !.loaded = r.value]
                      ELSE [@ EXCEPT !.pc = "failed", !.error = r]]
    /\ UNCHANGED <<world>>
    /\ UNCHANGED Others

\* append_history, open(_history_file(email), "w"): the file is emptied
OpenHistory(s) ==
    /\ run[s].pc = "open_history"
    /\ world' = [world EXCEPT !.history[_safe_email(run[s].args.user_email)] = Truncated]
    /\ run' = [run EXCEPT ![s].pc = "dump_history"]
    /\ UNCHANGED Others

\* app/core/config.py; env: the environment variable IMAGE_PROVIDER
IMAGE_PROVIDER(env) == Lower(IF env.t = "NoneType" THEN <<"m","o","c","k">> ELSE env.s)

\* the record append_history adds: metadata.to_dict() and created_at
HistoryRecord(r) ==
    LET a == r.args
    IN  [AdMetadata(r.image_id, <<"i","n","s","t","a","g","r","a","m","_","f","e","e","d">>, a.user_email, a.product,
                    a.tone, a.discount,
                    _build_image_prompt(a.product, a.tone, a.prompt_extra),
                    a.prompt_extra,
                    IMAGE_PROVIDER(world.provider),
                    r.image_rel_path, INSTAGRAM_FEED_SIZE, r.copy)
         EXCEPT !.created_at = "utcnow at append"]

\* append_history, json.dump(history, f) and close; then the result is
\* returned
DumpHistoryAndReturn(s) ==
    /\ run[s].pc = "dump_history"
    /\ world' = [world EXCEPT !.history[_safe_email(run[s].args.user_email)] =
                     Written(Append(run[s].loaded, HistoryRecord(run[s])))]
    /\ run' = [run EXCEPT ![s] =
                  [@ EXCEPT !.pc = "done",
                            !.trace = Append(@, "append_history"),
                            !.result = [image_id |-> run[s].image_id,
                                        image_path |-> run[s].image_rel_path,
                                        headline |-> run[s].copy.headline,
                                        subcopy |-> run[s].copy.subcopy,
                                        cta |-> run[s].copy.cta]]]
    /\ UNCHANGED Others

RequestNext ==
    \E s \in Sessions :
        \/ Call(s) \/ GenerateCopy(s) \/ GenerateBackgroundImage(s)
        \/ Segment(s) \/ Relight(s) \/ Upscale(s) \/ Render(s)
        \/ SaveImage(s) \/ LoadHistory(s) \/ OpenHistory(s)
        \/ DumpHistoryAndReturn(s)

RequestSpec == RequestInit /\ [][RequestNext]_vars

-----------------------------------------------------------------------------
(* app/core/auth.py: identification by email in the Streamlit session.     *)
(* session_state.user_email is Nothing while the key is absent.            *)

\* EMAIL_REGEX.match(email): [^@]+@[^@]+\.[^@]+ matched from the start of
\* the string; what follows the match is free
EMAIL_REGEX_match(email) ==
    \E at \in 2..Len(email) :
        /\ email[at] = <<"@">>[1]
        /\ \A i \in 1..(at - 1) : email[i] # <<"@">>[1]
        /\ \E dot \in (at + 2)..(Len(email) - 1) :
            /\ email[dot] = "."
            /\ \A i \in (at + 1)..(dot - 1) : email[i] # <<"@">>[1]
            /\ email[dot + 1] # <<"@">>[1]

is_valid_email(email) == email # <<>> /\ EMAIL_REGEX_match(email)

LoginInputs ==
    {<<"k","i","m","@","s","h","o","p",".","k","r">>, <<" ","K","i","m","@","S","h","o","p",".","K","R"," ">>, <<"l","e","e","@","s","h","o","p",".","k","r","\n">>, <<"k","i","m">>, <<>>,
     <<" "," "," ">>, <<"@","s","h","o","p",".","k","r">>, <<"k","i","m","@","s","h","o","p">>, <<"k","i","m","@",".","k","r">>, <<"k","i","m","@","@","s","h","o","p",".","k","r">>,
     <<"k","i","m","@","s","h","o","p",".","k","r","@","x">>, <<"k","i","m","@","s","h","o","p","."," ">>, <<" ","@","s","h","o","p",".","k","r">>, <<"p","a","r","k","@","s","h","o","p",".","c","o",".","k","r">>,
     <<"\t","C","h","o","i","@","S","h","o","p",".","k","r">>}

AuthInit ==
    /\ pc = "idle"
    /\ req = Nothing
    /\ plan_result = Nothing
    /\ bg_cfg = Nothing
    /\ bg_result = Nothing
    /\ call = Nothing
    /\ run = Nothing
    /\ world = Nothing
    /\ session_state = [user_email |-> Nothing]

AuthOthers == <<pc, req, plan_result, bg_cfg, bg_result, run, world>>

init_auth_state ==
    /\ session_state' =
         IF session_state.user_email = Nothing
         THEN [session_state EXCEPT !.user_email = None]
         ELSE session_state
    /\ call' = [stage |-> "init_auth_state", before |-> session_state.user_email,
                outcome |-> Returned(None)]
    /\ UNCHANGED AuthOthers

login(email) ==
    /\ IF ~is_valid_email(email)
       THEN /\ call' = [stage |-> "login", email |-> email,
                        before |-> session_state.user_email,
                        outcome |-> Returned(FALSE)]
            /\ UNCHANGED session_state
       ELSE /\ session_state' =
                 [session_state EXCEPT !.user_email = Str(Lower(Strip(email)))]
            /\ call' = [stage |-> "login", email |-> email,
                        before |-> session_state.user_email,
                        outcome |-> Returned(TRUE)]
    /\ UNCHANGED AuthOthers

logout ==
    /\ session_state' = [session_state EXCEPT !.user_email = None]
    /\ call' = [stage |-> "logout", before |-> session_state.user_email,
                outcome |-> Returned(None)]
    /\ UNCHANGED AuthOthers

AuthNext ==
    \/ init_auth_state
    \/ \E email \in LoginInputs : login(email)
    \/ logout

AuthSpec == AuthInit /\ [][AuthNext]_vars

-----------------------------------------------------------------------------
(* Properties of PlanBuilder, stated on the request and its result.        *)

Planned == pc \in {"planned", "background"}

ThePlan == plan_result.value

\* the product is None, empty or whitespace only
ProductBlank ==
    req.product = None \/ \A i \in 1..Len(req.product.s) : IsSpace(req.product.s[i])

\* s without its leading and trailing whitespace
RECURSIVE Trim(_)
Trim(s) ==
    IF s = <<>> THEN s
    ELSE IF IsSpace(Head(s)) THEN Trim(Tail(s))
    ELSE IF IsSpace(s[Len(s)]) THEN Trim(SubSeq(s, 1, Len(s) - 1))
    ELSE s

TrimmedOrEmpty(v) == IF v = None THEN <<>> ELSE Trim(v.s)

NoOverride == req.llm_json = None \/ req.llm_json = EmptyDict

Occurs(sub, s) ==
    \E i \in 0..(Len(s) - Len(sub)) :
        \A k \in 1..Len(sub) : s[i + k] = sub[k]

EndsWith(s, tail) ==
    Len(tail) <= Len(s) /\ SubSeq(s, Len(s) - Len(tail) + 1, Len(s)) = tail

\* s with A-Z folded to a-z
Folded(s) == Lower(s)

SafetyTokens == {<<"n","o"," ","t","e","x","t">>, <<"n","o"," ","l","o","g","o">>, <<"n","o"," ","w","a","t","e","r","m","a","r","k">>}

ForbiddenWords ==
    {<<"t","e","x","t">>, <<"l","o","g","o">>, <<"w","a","t","e","r","m","a","r","k">>, <<"ko:mu-n","ko:gu">>, <<"ko:geu-l","ko:ja">>, <<"ko:te-k","ko:seu","ko:teu">>, <<"ko:ro","ko:go">>}

HasForbiddenWord(s) == \E b \in ForbiddenWords : Occurs(b, Folded(s))

\* C1: the background prompt of every returned Plan contains, ignoring
\* case, each of 'no text', 'no logo' and 'no watermark', whatever the tone,
\* product, prompt_extra and override (an override may bring its own
\* background_prompt).
C1_PromptHasSafetyTokens ==
    (Planned /\ plan_result.ok) =>
        \A tok \in SafetyTokens : Occurs(tok, Folded(ThePlan.background_prompt))

\* an override's own background prompt, lacking every token, was merged
C1_Witness ==
    /\ pc = "planned"
    /\ plan_result.ok
    /\ req.llm_json = Dict([background_prompt |-> Str(<<" ","s","u","n","s","e","t"," ","b","e","a","c","h"," ">>)])
    /\ ThePlan.background_prompt = <<"s","u","n","s","e","t"," ","b","e","a","c","h",","," ","n","o"," ","t","e","x","t",","," ","n","o"," ","l","o","g","o",","," ","n","o"," ","w","a","t","e","r","m","a","r","k">>

\* C2: handing the background prompt of a returned Plan to
\* generate_background (fallback backend) succeeds and returns a canvas of
\* the requested size.
C2_BackgroundSucceeds ==
    pc = "background" =>
        bg_result.ok /\ bg_result.value.size = bg_cfg.size

ExtraForbidden ==
    req.prompt_extra # None /\ HasForbiddenWord(req.prompt_extra.s)

\* C3 as stated: for every prompt_extra containing a blacklisted token,
\* build_plan does not fail and the returned background prompt does not
\* contain that prompt_extra value verbatim.
C3_HintNotVerbatim ==
    (Planned /\ ~ProductBlank /\ NoOverride /\ ExtraForbidden) =>
        /\ plan_result.ok
        /\ ~Occurs(req.prompt_extra.s, ThePlan.background_prompt)

\* C3 amended: for every prompt_extra containing a blacklisted token (product
\* non-empty after trimming, no override), build_plan does not fail and the
\* hint is dropped: the returned prompt is the seven fixed fragments, the
\* four fragments of the tone and 'fits well with <product>', joined by
\* ', ', with nothing added for the hint.
C3_HintDropped ==
    (Planned /\ ~ProductBlank /\ NoOverride /\ ExtraForbidden) =>
        /\ plan_result.ok
        /\ ThePlan.background_prompt =
               <<"h","i","g","h"," ","q","u","a","l","i","t","y"," ","b","a","c","k","g","r","o","u","n","d"," ","f","o","r"," ","a","d","v","e","r","t","i","s","e","m","e","n","t",","," ","i","n","s","t","a","g","r","a","m","-","f","r","i","e","n","d","l","y"," ","c","o","m","p","o","s","i","t","i","o","n",","," ","s","o","f","t"," ","d","e","p","t","h"," ","o","f"," ","f","i","e","l","d",","," ","c","l","e","a","n"," ","s","c","e","n","e",","," ","n","o"," ","t","e","x","t",","," ","n","o"," ","l","o","g","o",","," ","n","o"," ","w","a","t","e","r","m","a","r","k",","," ">>
               \o (IF req.tone = <<"ko:go","ko:geu-p">>
                   THEN <<"l","u","x","u","r","y"," ","c","a","f","e"," ","m","o","o","d",","," ","p","r","e","m","i","u","m"," ","i","n","t","e","r","i","o","r",","," ","w","a","r","m"," ","b","u","t"," ","e","l","e","g","a","n","t"," ","l","i","g","h","t","i","n","g",","," ","w","o","o","d"," ","t","e","x","t","u","r","e">>
                   ELSE IF req.tone = <<"ko:ga-m","ko:seo-ng">>
                   THEN <<"w","a","r","m"," ","c","o","z","y"," ","c","a","f","e"," ","m","o","o","d",","," ","s","o","f","t"," ","w","a","r","m"," ","l","i","g","h","t","i","n","g",","," ","w","o","o","d","e","n"," ","t","a","b","l","e",","," ","g","e","n","t","l","e"," ","b","o","k","e","h">>
                   ELSE <<"b","r","i","g","h","t"," ","f","r","i","e","n","d","l","y"," ","c","a","f","e"," ","m","o","o","d",","," ","n","a","t","u","r","a","l"," ","l","i","g","h","t","i","n","g",","," ","w","o","o","d","e","n"," ","t","a","b","l","e",","," ","s","i","m","p","l","e"," ","c","l","e","a","n">>)
               \o <<","," ","f","i","t","s"," ","w","e","l","l"," ","w","i","t","h"," ">> \o TrimmedOrEmpty(req.product)

\* a hint carrying an upper-case blacklisted word was dropped
C3_Witness ==
    /\ pc = "planned"
    /\ req.prompt_extra = Str(<<"b","i","g"," ","L","O","G","O">>)
    /\ req.product = Str(<<" ","ko:si","ko:geu","ko:ni","ko:cheo"," ","ko:ra","ko:tte"," ">>)
    /\ plan_result.ok
    /\ EndsWith(ThePlan.background_prompt, <<"f","i","t","s"," ","w","e","l","l"," ","w","i","t","h"," ","ko:si","ko:geu","ko:ni","ko:cheo"," ","ko:ra","ko:tte">>)

OverridePrompt ==
    IF req.llm_json.t = "dict" /\ "background_prompt" \in DOMAIN req.llm_json.d
    THEN req.llm_json.d.background_prompt ELSE None

\* C4: an override's background_prompt that contains a blacklisted token
\* makes build_plan fail; it is never accepted into a returned Plan.
C4_UnsafeOverrideRejected ==
    (Planned /\ ~ProductBlank /\ OverridePrompt.t = "str"
        /\ HasForbiddenWord(OverridePrompt.s)) =>
        ~plan_result.ok

\* number of digits of s from position i on
RECURSIVE DigitsFrom(_, _)
DigitsFrom(s, i) ==
    IF i <= Len(s) /\ IsDigit(s[i]) THEN 1 + DigitsFrom(s, i + 1) ELSE 0

At(s, i, word) == i + Len(word) - 1 <= Len(s) /\ SubSeq(s, i, i + Len(word) - 1) = word

\* where a match of \d+% can start in s
PercentStarts(s) ==
    {i \in 1..Len(s) : DigitsFrom(s, i) >= 1 /\ At(s, i + DigitsFrom(s, i), <<"%">>)}

FirstPercentStart(s) == CHOOSE i \in PercentStarts(s) : \A j \in PercentStarts(s) : i <= j

\* the leftmost match of \d+% in s
FirstPercentMatch(s) ==
    SubSeq(s, FirstPercentStart(s), FirstPercentStart(s) + DigitsFrom(s, FirstPercentStart(s)))

\* left of the first \d+% match, digits are followed by whitespace and '%',
\* or by '퍼센트' with at most one whitespace in between
WiderMatchEarlier(s) ==
    \E i \in 1..(FirstPercentStart(s) - 1) :
        /\ IsDigit(s[i])
        /\ LET j == i + DigitsFrom(s, i)
           IN  \/ (j <= Len(s) /\ IsSpace(s[j]) /\ At(s, j + 1, <<"%">>))
               \/ At(s, j, <<"ko:peo","ko:se-n","ko:teu">>)
               \/ (j <= Len(s) /\ IsSpace(s[j]) /\ At(s, j + 1, <<"ko:peo","ko:se-n","ko:teu">>))

HeadlineEmphasis == ThePlan.layout.headline.emphasis

AccentEmphasis(text) ==
    [t |-> "EmphasisSpec", text |-> text, color_hex |-> <<"#","F","F","4","D","4","D">>, scale |-> 120]

\* C5 as stated: without an override, for every discount that contains a
\* match of \d+% the headline's emphasis is present, its text is exactly that
\* matched substring, its colour the accent colour and its scale 1.2; with no
\* discount the headline has no emphasis.
C5_EmphasisIsPercentMatch ==
    (Planned /\ plan_result.ok /\ NoOverride) =>
        LET d == TrimmedOrEmpty(req.discount)
        IN  /\ PercentStarts(d) # {} =>
                   HeadlineEmphasis = AccentEmphasis(FirstPercentMatch(d))
            /\ d = <<>> => HeadlineEmphasis = None

\* C5 amended: the same, for every discount whose leftmost match of \d+% has
\* no match of the wider pattern (\d+\s?%|\d+\s?퍼센트) starting left of it:
\* the code emphasises the leftmost match of the wider pattern.
C5_EmphasisIsLeftmostMatch ==
    (Planned /\ plan_result.ok /\ NoOverride) =>
        LET d == TrimmedOrEmpty(req.discount)
        IN  /\ (PercentStarts(d) # {} /\ ~WiderMatchEarlier(d)) =>
                   HeadlineEmphasis = AccentEmphasis(FirstPercentMatch(d))
            /\ d = <<>> => HeadlineEmphasis = None

\* a two-digit percentage after a word was emphasised
C5_Witness ==
    /\ pc = "planned"
    /\ plan_result.ok
    /\ req.discount = Str(<<"ko:ha-l","ko:i-n","5","5","%">>)
    /\ req.llm_json = None
    /\ HeadlineEmphasis = AccentEmphasis(<<"5","5","%">>)

Blocks == {"headline", "subcopy", "cta"}

\* C6: in every returned Plan, a block's emphasis.text is a literal
\* substring of that block's copy text.
C6_EmphasisIsSubstring ==
    (Planned /\ plan_result.ok) =>
        \A k \in Blocks :
            ThePlan.layout[k].emphasis # None =>
                Occurs(ThePlan.layout[k].emphasis.text, ThePlan.copy[k])

\* C7: a product that is None, empty or whitespace only makes build_plan
\* raise the ValueError of its input check and return no Plan; every other
\* product, with any tone, discount and prompt_extra, gets a Plan.
C7_ProductRequired ==
    Planned =>
        /\ ProductBlank => plan_result = Raised("ValueError", "build_plan")
        /\ (~ProductBlank /\ NoOverride) => plan_result.ok

\* a whitespace-only product was rejected
C7_Witness ==
    /\ pc = "planned"
    /\ req.product = Str(<<" "," ">>)
    /\ plan_result = Raised("ValueError", "build_plan")

\* the layout build_plan makes by rule: the block's value before any merge
RuleLayout(k) ==
    IF k = "headline"
    THEN [position |-> <<"u","p","p","e","r","_","c","e","n","t","e","r">>, font_style |-> <<"b","o","l","d">>,
          font_size |-> IF req.tone = <<"ko:go","ko:geu-p">> THEN <<"l","g">> ELSE <<"x","l">>]
    ELSE [position |-> <<"l","o","w","e","r","_","c","e","n","t","e","r">>,
          font_style |-> IF k = "subcopy" THEN <<"r","e","g","u","l","a","r">> ELSE <<"b","o","l","d">>,
          font_size |-> <<"m","d">>]

\* what the override says about field f of block k: a string, or None
OverrideEntry(k, f) ==
    LET j == req.llm_json
        l == IF j.t = "dict" /\ "layout" \in DOMAIN j.d THEN j.d.layout ELSE None
        x == IF l.t = "dict" /\ k \in DOMAIN l.d THEN l.d[k] ELSE None
    IN  IF x.t = "dict" /\ f \in DOMAIN x.d /\ x.d[f].t = "str" THEN x.d[f] ELSE None

Enum(f) ==
    CASE f = "position" -> Positions
      [] f = "font_style" -> FontStyles
      [] f = "font_size" -> FontSizes

\* C8: after merging any override, position, font_style and font_size of
\* the three blocks are members of their enums; an entry that is missing or
\* not a member yields the rule-based value, a member is taken over.
C8_LayoutWithinEnums ==
    (Planned /\ plan_result.ok) =>
        \A k \in Blocks : \A f \in {"position", "font_style", "font_size"} :
            /\ ThePlan.layout[k][f] \in Enum(f)
            /\ ThePlan.layout[k][f] =
                   IF OverrideEntry(k, f) # None /\ OverrideEntry(k, f).s \in Enum(f)
                   THEN OverrideEntry(k, f).s
                   ELSE RuleLayout(k)[f]

\* an override with a position outside the enum and a valid font_size
C8_Witness ==
    /\ pc = "planned"
    /\ plan_result.ok
    /\ OverrideEntry("headline", "position") = Str(<<"C","E","N","T","E","R">>)
    /\ OverrideEntry("headline", "font_size") = Str(<<"s","m">>)
    /\ ThePlan.layout.headline.position = <<"u","p","p","e","r","_","c","e","n","t","e","r">>
    /\ ThePlan.layout.headline.font_size = <<"s","m">>

\* the Plan build_plan returns for the same request without the override
RulePlan ==
    build_plan(req.product, req.tone, req.discount, req.prompt_extra, None).value

OverridePart(key) ==
    IF req.llm_json.t = "dict" /\ key \in DOMAIN req.llm_json.d
    THEN req.llm_json.d[key] ELSE None

\* what the override's layout holds for block k
OverrideBlock(k) ==
    LET l == OverridePart("layout")
    IN  IF l.t = "dict" /\ k \in DOMAIN l.d THEN l.d[k] ELSE None

\* the value under key of v is a str
StrAt(v, key) == v.t = "dict" /\ key \in DOMAIN v.d /\ v.d[key].t = "str"

\* C9: an override never makes build_plan fail, and a copy field, colour or
\* model hint whose override value is absent or not a string keeps its
\* rule-based value.
C9_OnlyWellTypedFieldsReplace ==
    (Planned /\ ~ProductBlank /\ ~NoOverride) =>
        /\ plan_result.ok
        /\ \A k \in Blocks :
            /\ ~StrAt(OverridePart("copy"), k) => ThePlan.copy[k] = RulePlan.copy[k]
            /\ ~StrAt(OverrideBlock(k), "color_hex") =>
                   ThePlan.layout[k].color_hex = RulePlan.layout[k].color_hex
        /\ \A h \in {"lora_key", "control_hint", "ip_adapter_ref"} :
            ~StrAt(OverridePart("model_hints"), h) =>
                ThePlan.model_hints[h] = RulePlan.model_hints[h]

-----------------------------------------------------------------------------
(* Properties of backend selection *)

\* the selection names the one implementation that exists: backend
\* "fallback" for a pipeline stage, provider "mock" (the default when the
\* variable is unset, compared lower-cased) for the image service
ImplementedSelected ==
    IF call.stage = "image_service"
    THEN call.env = None \/ Folded(call.env.s) = <<"m","o","c","k">>
    ELSE call.backend = "fallback"

\* C10: whenever a backend or provider other than the implemented one is
\* selected, the stage fails with the unsupported-backend error
\* (NotImplementedError): no selection runs a different implementation.
C10_UnsupportedSelectionFails ==
    (call # Nothing /\ ~ImplementedSelected) =>
        (~call.outcome.ok /\ call.outcome.exc = "NotImplementedError")

-----------------------------------------------------------------------------
(* Properties of the Relighter *)

RelightCall == call # Nothing /\ call.stage = "relight" /\ call.backend = "fallback"

\* C11: when no foreground cutout is supplied, relight_and_compose does not
\* fail and returns a canvas equal to the background.
C11_AbsentForegroundPassesThrough ==
    (RelightCall /\ call.foreground_rgba = None) =>
        (call.outcome.ok /\ call.outcome.value = call.background)

\* the brightness factor applied to the pasted foreground
AppliedFactor == call.outcome.value.pasted[2].image.factor

\* C12: for every background luminance and every tone_match_strength, the
\* brightness factor applied to the foreground lies within [0.85, 1.15].
C12_FactorWithinClamp ==
    (RelightCall /\ call.outcome.ok) =>
        /\ 17 * AppliedFactor.den <= 20 * AppliedFactor.num
        /\ 20 * AppliedFactor.num <= 23 * AppliedFactor.den

\* a black background and strength 3.0: 1 + (0 - 0.5) * 3 = -0.5 is clamped
C12_Witness ==
    /\ RelightCall /\ call.outcome.ok
    /\ call.strength = 300
    /\ CenterSum(call.background).count > 0
    /\ CenterSum(call.background).sum = 0
    /\ AppliedFactor = [num |-> 85, den |-> 100]

-----------------------------------------------------------------------------
(* Properties of the Upscaler *)

UpscaleCall == call # Nothing /\ call.stage = "upscale" /\ call.backend = "fallback"

Clamped == call.max_size # <<>>

ScaledSize == <<call.image.size[1] * call.scale, call.image.size[2] * call.scale>>

OutSize == call.outcome.value.size

\* C13: for every input size, scale factor and supplied clamp, the output
\* width is at most the clamp width and the output height at most the clamp
\* height.
C13_OutputWithinClamp ==
    (UpscaleCall /\ Clamped /\ call.outcome.ok) =>
        /\ OutSize[1] <= call.max_size[1]
        /\ OutSize[2] <= call.max_size[2]

\* C13 amended: on every axis whose clamp is not 0 the output is at most the
\* clamp; a clamp of 0 on an axis leaves that axis unlimited.
C13_OutputWithinNonzeroClamp ==
    (UpscaleCall /\ Clamped /\ call.outcome.ok) =>
        /\ call.max_size[1] # 0 => OutSize[1] <= call.max_size[1]
        /\ call.max_size[2] # 0 => OutSize[2] <= call.max_size[2]

\* a 3 x 5 image scaled by 4 to 12 x 20 under the clamp (7, 100) comes out 7 x 11
C13_Witness ==
    /\ UpscaleCall /\ call.outcome.ok
    /\ call.max_size = <<7, 100>>
    /\ ScaledSize = <<12, 20>>
    /\ OutSize = <<7, 11>>

\* C14: with no clamp, or with a scaled size within the clamp on both axes,
\* the output size is exactly (width * scale, height * scale); a clamp never
\* enlarges; and both axes are shrunk by one factor s: out_w = int(new_w * s)
\* and out_h = int(new_h * s) for some s.
C14_ClampOnlyShrinksUniformly ==
    UpscaleCall =>
        /\ (~Clamped \/ (ScaledSize[1] <= call.max_size[1]
                         /\ ScaledSize[2] <= call.max_size[2]))
               => (call.outcome.ok /\ OutSize = ScaledSize)
        /\ call.outcome.ok =>
               /\ OutSize[1] <= ScaledSize[1]
               /\ OutSize[2] <= ScaledSize[2]
               \* [out_w / new_w, (out_w + 1) / new_w) meets
               \* [out_h / new_h, (out_h + 1) / new_h)
               /\ OutSize[1] * ScaledSize[2] < (OutSize[2] + 1) * ScaledSize[1]
               /\ OutSize[2] * ScaledSize[1] < (OutSize[1] + 1) * ScaledSize[2]

\* a clamp that the scaled size already satisfies
C14_Witness ==
    /\ UpscaleCall /\ call.outcome.ok /\ Clamped
    /\ call.max_size = <<12, 20>>
    /\ ScaledSize = <<12, 20>>
    /\ OutSize = <<12, 20>>

-----------------------------------------------------------------------------
(* Properties of the fallback BackgroundGenerator and of the Segmenter *)

\* the palette of the prompt's tone bucket, first and second colour
TonePalette(prompt) ==
    IF Occurs(<<"l","u","x","u","r","y">>, Folded(prompt)) \/ Occurs(<<"p","r","e","m","i","u","m">>, Folded(prompt))
    THEN <<<<40, 30, 20>>, <<90, 70, 50>>>>
    ELSE IF Occurs(<<"w","a","r","m">>, Folded(prompt)) \/ Occurs(<<"c","o","z","y">>, Folded(prompt))
    THEN <<<<120, 80, 50>>, <<220, 180, 140>>>>
    ELSE <<<<200, 200, 200>>, <<245, 245, 245>>>>

\* C18: two invocations of the fallback BackgroundGenerator with the same
\* prompt and size return identical canvases, whose gradient runs from the
\* first colour of the prompt's palette (top row) to the second (bottom row).
C18_FallbackBackgroundDeterministic ==
    (pc = "repeated" /\ call.stage = "background" /\ call.backend = "fallback"
        /\ call.outcome.ok /\ call.again.ok) =>
        /\ call.again.value = call.outcome.value
        /\ call.outcome.value.rows[0] = TonePalette(call.prompt)[1]
        /\ call.size[2] > 1 =>
               call.outcome.value.rows[call.size[2] - 1] = TonePalette(call.prompt)[2]

-----------------------------------------------------------------------------
(* Properties of the TextRenderer *)

DrawCall == call # Nothing /\ call.stage = "draw_text_block"

HasEmphasis == call.spec.emphasis # None

\* the same block with emphasis removed
Plain(spec) == [spec EXCEPT !.emphasis = None]

FontFile == IF call.spec.font_style = <<"b","o","l","d">> THEN FONT_BOLD ELSE FONT_REGULAR

\* C17: when the font file referenced for a text block is absent, rendering
\* the block fails with ResourceMissing; nothing is drawn with a substitute
\* font.
C17_MissingFontFails ==
    (DrawCall /\ call.text # <<>> /\ FontFile \notin call.fonts) =>
        (~call.outcome.ok /\ call.outcome.exc = "ResourceMissing")

-----------------------------------------------------------------------------
(* Properties of generation requests *)

UserDir(s) == _safe_email(run[s].args.user_email)

\* the image session s saved is on disk
ImageSaved(s) ==
    /\ run[s].image_id # Nothing
    /\ ImageFile(run[s].args.user_email, run[s].image_id, <<"p","n","g">>) \in world.images

\* the user's history.json holds a record of the image session s saved
HistoryRecorded(s) ==
    /\ world.history[UserDir(s)].state = "written"
    /\ \E i \in DOMAIN world.history[UserDir(s)].records :
           world.history[UserDir(s)].records[i].image_id = run[s].image_id

\* C16: a request that failed returned no result and left no saved image
\* behind without its history record.
C16_FailureLeavesNothingBehind ==
    \A s \in Sessions :
        run[s].pc = "failed" =>
            /\ run[s].result = Nothing
            /\ ImageSaved(s) => HistoryRecorded(s)

\* the stages of one request in the order the control flow names them
StageOrder(args) ==
    <<"generate_copy", "generate_background">>
        \o (IF args.main_image_path # None THEN <<"segment_product">> ELSE <<>>)
        \o <<"relight_and_compose", "upscale_image", "render_text_layers">>

Stages ==
    {"generate_copy", "generate_background", "segment_product",
     "relight_and_compose", "upscale_image", "render_text_layers"}

\* the stages session s has started, in the order it started them
StagesRun(s) == SelectSeq(run[s].trace, LAMBDA st : st \in Stages)

Quiescent == \A s \in Sessions : run[s].pc \in {"idle", "done", "failed"}

\* C21: once the requests have ended, every request that completed has its
\* own record in its user's history, whatever the interleaving was.
C21_CompletedRequestsAreRecorded ==
    Quiescent => \A s \in Sessions : run[s].pc = "done" => HistoryRecorded(s)

\* C22: the copy of a Plan is within the display limits: the headline has at
\* most 20 characters and the subcopy at most 40.
C22_CopyWithinDisplayLimits ==
    (Planned /\ plan_result.ok) =>
        /\ Len(ThePlan.copy.headline) <= 20
        /\ Len(ThePlan.copy.subcopy) <= 40

\* the prompt session s handed to background generation and the prompt of the
\* history record of its image
PromptsOf(s) ==
    (IF run[s].prompt # Nothing THEN {run[s].prompt} ELSE {})
    \cup (IF run[s].pc # "idle" /\ world.history[UserDir(s)].state = "written"
          THEN {world.history[UserDir(s)].records[i].prompt :
                    i \in {j \in DOMAIN world.history[UserDir(s)].records :
                              world.history[UserDir(s)].records[j].image_id
                                  = run[s].image_id}}
          ELSE {})

HintForbidden(s) ==
    run[s].args.prompt_extra # None /\ HasForbiddenWord(run[s].args.prompt_extra.s)

\* C23: every prompt a request passed to background generation or recorded
\* in the history contains 'no text', 'no logo' and 'no watermark', and does
\* not contain the request's hint when the hint carries a blacklisted token.
C23_RequestPromptIsSafe ==
    \A s \in Sessions : \A prompt \in PromptsOf(s) :
        /\ \A t \in SafetyTokens : Occurs(t, Folded(prompt))
        /\ HintForbidden(s) => ~Occurs(run[s].args.prompt_extra.s, prompt)

-----------------------------------------------------------------------------
(* Properties of text layout and rendering *)

LayoutCall == call # Nothing /\ call.stage = "resolve_text_layout"

\* the safe margin of the platform for height h: 10, 8 or 15 hundredths of h,
\* rounded down
MarginOf(platform, h) ==
    IF platform = <<"p","o","s","t","e","r">> THEN (8 * h) \div 100
    ELSE IF platform = <<"b","a","n","n","e","r">> THEN (15 * h) \div 100
    ELSE (10 * h) \div 100

UpperPositions == {<<"u","p","p","e","r","_","l","e","f","t">>, <<"u","p","p","e","r","_","c","e","n","t","e","r">>, <<"u","p","p","e","r","_","r","i","g","h","t">>}

LowerPositions == {<<"l","o","w","e","r","_","l","e","f","t">>, <<"l","o","w","e","r","_","c","e","n","t","e","r">>, <<"l","o","w","e","r","_","r","i","g","h","t">>}

\* C24: resolve_text_layout returns y at the platform's top safe margin for
\* the upper positions, at h minus the bottom safe margin for the lower
\* positions and at h // 2 for center; x and y lie on the canvas; a position
\* it does not know resolves to the centre with anchor 'mm'.
C24_LayoutWithinSafeMargins ==
    LayoutCall =>
        LET w == call.canvas_size[1]
            h == call.canvas_size[2]
            r == call.outcome.value
        IN  /\ call.outcome.ok
            /\ 0 <= r.x /\ r.x <= w
            /\ 0 <= r.y /\ r.y <= h
            /\ call.position \in UpperPositions => r.y = MarginOf(call.platform, h)
            /\ call.position \in LowerPositions => r.y = h - MarginOf(call.platform, h)
            /\ call.position = <<"c","e","n","t","e","r">> => r.y = h \div 2
            /\ call.position \notin UpperPositions \cup LowerPositions \cup {<<"c","e","n","t","e","r">>}
                   => r.x = w \div 2 /\ r.y = h \div 2 /\ r.anchor = "mm"

\* a lower position on a banner, where the margin differs from the default
C24_Witness ==
    /\ LayoutCall
    /\ call.outcome.ok
    /\ call.platform = <<"b","a","n","n","e","r">>
    /\ call.position = <<"l","o","w","e","r","_","r","i","g","h","t">>
    /\ call.canvas_size = <<1200, 628>>
    /\ call.outcome.value.y = 534

\* the block's emphasis target is not empty and occurs in its text
TargetOccurs ==
    /\ DrawCall /\ HasEmphasis
    /\ call.spec.emphasis.text # <<>>
    /\ Occurs(call.spec.emphasis.text, call.text)

\* the x that resolve_text_layout gives the block
ResolvedX ==
    resolve_text_layout(call.canvas_size, call.spec.position, call.spec.font_size,
                        call.spec.color_hex, call.spec.emphasis, call.platform).value.x

\* the draw.text calls are before, target, after: split at the first
\* occurrence, each starting where the one before ends, the whole centred on x
SegmentsCentredOn(ops, text, target, x) ==
    /\ Len(ops) = 3
    /\ ops[1].text \o ops[2].text \o ops[3].text = text
    /\ ops[2].text = target
    /\ ~Occurs(target, ops[1].text \o SubSeq(target, 1, Len(target) - 1))
    /\ \A i \in 1..3 : ops[i].anchor = "lm"
    /\ ops[2].x2 = ops[1].x2 + 2 * getlength(ops[1].font, ops[1].text)
    /\ ops[3].x2 = ops[2].x2 + 2 * getlength(ops[2].font, ops[2].text)
    /\ ops[1].x2 + ops[3].x2 + 2 * getlength(ops[3].font, ops[3].text) = 4 * x

-----------------------------------------------------------------------------
(* Properties of the Relighter's scaling *)

\* the foreground as the Relighter pasted it, and where
PastedForeground == call.outcome.value.pasted[2]

\* C26: for every background and every cutout of at least 1x1, the scaled
\* foreground is at least 1x1, is no larger than 0.6 of the background on
\* either axis and is pasted horizontally centred; no zero-sized resize is
\* attempted.
C26_ScaledForegroundFits ==
    (/\ RelightCall
     /\ call.foreground_rgba # None
     /\ call.foreground_rgba.size[1] >= 1
     /\ call.foreground_rgba.size[2] >= 1) =>
        /\ call.outcome.ok
        /\ PastedForeground.image.size[1] >= 1
        /\ PastedForeground.image.size[2] >= 1
        /\ 5 * PastedForeground.image.size[1] <= 3 * call.background.size[1]
        /\ 5 * PastedForeground.image.size[2] <= 3 * call.background.size[2]
        /\ PastedForeground.at[1]
               = (call.background.size[1] - PastedForeground.image.size[1]) \div 2

-----------------------------------------------------------------------------
(* Properties of the history *)

UserDirs == {_safe_email(e) : e \in Emails}

\* the records a history file holds
RecordsIn(file) == IF file.state = "written" THEN file.records ELSE <<>>

\* every record of every history refers to an image saved under that user,
\* by the path save_image returned
RecordsReferToSavedImages(w) ==
    \A u \in UserDirs : \A i \in DOMAIN RecordsIn(w.history[u]) :
        LET rec == RecordsIn(w.history[u])[i]
        IN  /\ _safe_email(rec.user_email) = u
            /\ ImageFile(rec.user_email, rec.image_id, <<"p","n","g">>) \in w.images
            /\ rec.image_path = ImageRelPath(rec.image_id, <<"p","n","g">>)

\* session s opens the history file for writing in this step
OpensHistory(s) == run[s].pc = "open_history" /\ run'[s].pc = "dump_history"

\* session s writes the history file and returns in this step
DumpsHistory(s) == run[s].pc = "dump_history" /\ run'[s].pc = "done"

\* append_history of session s keeps the records that are in the file when it
\* rewrites it, in order, and adds exactly one, for the image s saved
KeepsEarlierRecords(s) ==
    /\ OpensHistory(s) => RecordsIn(world.history[UserDir(s)]) = run[s].loaded
    /\ DumpsHistory(s) =>
           /\ world.history[UserDir(s)] = Truncated
           /\ Len(RecordsIn(world'.history[UserDir(s)])) = Len(run[s].loaded) + 1
           /\ SubSeq(RecordsIn(world'.history[UserDir(s)]), 1, Len(run[s].loaded))
                  = run[s].loaded
           /\ RecordsIn(world'.history[UserDir(s)])[Len(run[s].loaded) + 1].image_id
                  = run[s].image_id

\* C27: after every step of any run of generation requests, each record of a
\* user's history refers to an image already saved under that user by the
\* path save_image returned, and each append_history keeps all earlier
\* records unchanged and in order while adding exactly one.
C27_HistoryFollowsSavedImages ==
    [][/\ RecordsReferToSavedImages(world')
       /\ \A s \in Sessions : KeepsEarlierRecords(s)]_vars

-----------------------------------------------------------------------------
(* Properties of the per-user storage *)

UserRootCall == call # Nothing /\ call.stage = "user_root"

\* C28: two emails that differ after lower-casing get different directory
\* names.
C28_UserDirectoriesDistinct ==
    (UserRootCall /\ Lower(call.a) # Lower(call.b)) =>
        call.outcome[1] # call.outcome[2]

SafePathCall == call # Nothing /\ call.stage = "ensure_safe_path"

\* target is base or lies below it, component by component
Inside(base, target) ==
    Len(base) <= Len(target) /\ SubSeq(target, 1, Len(base)) = base

\* C29: ensure_safe_path returns the resolved target when it is base_dir or
\* a descendant of it, and raises ValueError for every target that resolves
\* outside base_dir, a sibling whose name starts with base_dir's name
\* included.
C29_OnlyPathsInsideBase ==
    SafePathCall =>
        IF Inside(Resolve(call.base_dir), Resolve(call.target_path))
        THEN call.outcome = Returned(Resolve(call.target_path))
        ELSE ~call.outcome.ok /\ call.outcome.exc = "ValueError"

AuthCall == call # Nothing /\ call.stage \in {"init_auth_state", "login", "logout"}

\* a trimmed, lower-cased string that satisfies is_valid_email
NormalisedValidEmail(v) ==
    /\ v.t = "str"
    /\ Strip(v.s) = v.s
    /\ Lower(v.s) = v.s
    /\ is_valid_email(v.s)

\* C30: after any sequence of login and logout calls user_email is None (or
\* not yet set) or a trimmed, lower-cased string that satisfies
\* is_valid_email; a rejected login returns False and leaves user_email as
\* it was, and logout sets it to None.
C30_SessionEmailIsValid ==
    /\ session_state.user_email \in {Nothing, None}
         \/ NormalisedValidEmail(session_state.user_email)
    /\ AuthCall /\ call.stage = "login" /\ ~is_valid_email(call.email) =>
         call.outcome = Returned(FALSE) /\ session_state.user_email = call.before
    /\ AuthCall /\ call.stage = "logout" => session_state.user_email = None



====
